---- MODULE Spec2Model ----
(***************************************************************************)
(* Model of torch/ao/ns/_numeric_suite_fx.py: the OutputLogger probe, the  *)
(* aggregation of logger state into a results structure, the comparison of *)
(* the results of two models, the instrumentation of matched subgraphs and *)
(* the n-shadows sweep builder.                                            *)
(***************************************************************************)
EXTENDS Integers, Sequences, FiniteSets, TLC

VARIABLES
    loggers,        \* the OutputLogger modules, in named_modules() order
    results,        \* the NSResultsType dict being built / enriched
    ret,            \* value returned by the last call (NoValue if it raised)
    err,            \* exception raised by the last call, "none" if it returned
    lastCall,       \* the last call made and its arguments
    numCalls,       \* number of forward calls made so far
    numTensorCalls, \* per logger: forward calls made while enabled with a tensor
    steps,          \* the calls and graph edits made by the last entry point, in order
    extracts,       \* what the calls of extract_logger_info since the last forward
                    \* pass returned, in call order
    sweep,          \* the arguments of prepare_n_shadows_model
    mt,             \* the GraphModule built by prepare_n_shadows_model
    grouped,        \* the dict returned by group_results_by_subgraph
    match,          \* the two graphs and the relatedness table handed to the matcher
    pairs,          \* matched_subgraph_pairs
    requests        \* the instrumentation points requested by _add_loggers_impl

entryVars == <<steps, extracts>>
sweepVars == <<sweep, mt, grouped>>
matchVars == <<match, pairs, requests>>

vars == <<loggers, results, ret, err, lastCall, numCalls, numTensorCalls,
          steps, extracts, sweep, mt, grouped, match, pairs, requests>>

(***************************************************************************)
(* Bounds                                                                  *)
(***************************************************************************)
NumProbes == 2      \* loggers executed by the forward specification
MaxCalls == 3       \* forward calls per behaviour
NumLoggers == 3     \* loggers in the module tree that is aggregated

(***************************************************************************)
(* Python values handed to a logger.  Every value is a record of the same  *)
(* shape: tag, id (tensor identity or int value), att (tensor is attached  *)
(* to the autograd graph), dim0 (size of a tensor's first dimension, -1    *)
(* for a 0-d tensor) and elems (items of a tuple or list).                 *)
(***************************************************************************)
Tensor(i, g, d) == [tag |-> "Tensor", id |-> i, att |-> g, dim0 |-> d, elems |-> <<>>]
PyInt(n) == [tag |-> "Int", id |-> n, att |-> FALSE, dim0 |-> -1, elems |-> <<>>]
PyNone == [tag |-> "None", id |-> 0, att |-> FALSE, dim0 |-> -1, elems |-> <<>>]
PyTuple(s) == [tag |-> "Tuple", id |-> 0, att |-> FALSE, dim0 |-> -1, elems |-> s]
PyList(s) == [tag |-> "List", id |-> 0, att |-> FALSE, dim0 |-> -1, elems |-> s]
NoValue == [tag |-> "NoValue", id |-> 0, att |-> FALSE, dim0 |-> -1, elems |-> <<>>]

IsTensor(x) == x.tag = "Tensor"
IsTuple(x) == x.tag = "Tuple"

\* len(x) is defined for tuples, lists and tensors of at least one dimension;
\* it raises TypeError for everything else.
HasLen(x) == x.tag \in {"Tuple", "List"} \/ (IsTensor(x) /\ x.dim0 >= 0)
PyLen(x) == IF IsTensor(x) THEN x.dim0 ELSE Len(x.elems)

\* x[i] (0-based) of a tuple, a list, or a tensor (a row, which is a view
\* sharing the autograd attachment of its base).
PyItem(x, i) ==
    IF IsTensor(x) THEN Tensor(x.id * 10 + i, x.att, -1) ELSE x.elems[i + 1]

\* only tensors have .detach(); it gives the same data cut from the graph
HasDetach(x) == IsTensor(x)
Detach(x) == [x EXCEPT !.att = FALSE]

\* RNNReturnType = Tuple[Tensor, Tuple[Tensor, Tensor]]
IsRNNReturnType(x) ==
    /\ IsTuple(x) /\ Len(x.elems) = 2
    /\ IsTensor(x.elems[1])
    /\ IsTuple(x.elems[2]) /\ Len(x.elems[2].elems) = 2
    /\ IsTensor(x.elems[2].elems[1]) /\ IsTensor(x.elems[2].elems[2])

T1 == Tensor(1, TRUE, -1)
T2 == Tensor(2, FALSE, -1)
T3 == Tensor(3, FALSE, 2)

RnnValue == PyTuple(<<T1, PyTuple(<<T2, T1>>)>>)

InputValues ==
    { T1, T2,
      RnnValue,
      PyTuple(<<T2, PyList(<<T2, T2>>)>>),
      PyTuple(<<T2, T3>>),
      PyTuple(<<T1, T2>>),
      PyTuple(<<T2, PyInt(5)>>),
      PyTuple(<<T2, PyTuple(<<PyInt(1), PyInt(2)>>)>>),
      PyTuple(<<T2, PyTuple(<<T2, T2, T2>>)>>),
      PyTuple(<<T2, T2, T2>>),
      PyNone }

(***************************************************************************)
(* OutputLogger                                                            *)
(***************************************************************************)
ModelNames == {"a", "b", "node_output"}
RefNames == {"m0", "m1"}
ResultsTypes == {"node_output", "node_input"}

\* OutputLogger.__init__
NewLogger(ref_name, model_name, results_type, index_of_arg, index_within_arg) ==
    [ stats |-> <<>>,
      stats_rnn |-> <<>>,
      ref_node_name |-> "op1",
      prev_node_name |-> IF results_type = "node_input" THEN "x1" ELSE "op1",
      model_name |-> model_name,
      ref_name |-> ref_name,
      prev_node_target_type |-> "torch.nn.Linear",
      ref_node_target_type |-> "torch.nn.Linear",
      results_type |-> results_type,
      index_within_arg |-> index_within_arg,
      index_of_arg |-> index_of_arg,
      fqn |-> "fqn",
      enabled |-> TRUE,
      qconfig_str |-> "" ]

ForwardMutReturnsSnapshot(self, x) ==
    IF ~self.enabled THEN [self |-> self, ret |-> x, err |-> "none"]
    ELSE IF IsTensor(x) THEN
        [self |-> [self EXCEPT !.stats = Append(@, Detach(x))],
         ret |-> Detach(x), err |-> "none"]
    ELSE IF IsTuple(x) /\ PyLen(x) = 2 THEN
        IF ~HasLen(PyItem(x, 1)) THEN
            [self |-> self, ret |-> NoValue, err |-> "TypeError"]
        ELSE IF PyLen(PyItem(x, 1)) = 2 THEN
            IF /\ HasDetach(PyItem(x, 0))
               /\ HasDetach(PyItem(PyItem(x, 1), 0))
               /\ HasDetach(PyItem(PyItem(x, 1), 1))
            THEN
                LET new_res == PyTuple(<<Detach(PyItem(x, 0)),
                                   PyTuple(<<Detach(PyItem(PyItem(x, 1), 0)),
                                             Detach(PyItem(PyItem(x, 1), 1))>>)>>)
                IN [self |-> [self EXCEPT !.stats_rnn = Append(@, new_res)],
                    ret |-> x, err |-> "none"]
            ELSE [self |-> self, ret |-> NoValue, err |-> "AttributeError"]
        ELSE [self |-> self, ret |-> x, err |-> "none"]
    ELSE [self |-> self, ret |-> x, err |-> "none"]

ForwardMutIgnoresEnabled(self, x) ==
    IF IsTensor(x) THEN
        [self |-> [self EXCEPT !.stats = Append(@, Detach(x))],
         ret |-> x, err |-> "none"]
    ELSE IF IsTuple(x) /\ PyLen(x) = 2 THEN
        IF ~HasLen(PyItem(x, 1)) THEN
            [self |-> self, ret |-> NoValue, err |-> "TypeError"]
        ELSE IF PyLen(PyItem(x, 1)) = 2 THEN
            IF /\ HasDetach(PyItem(x, 0))
               /\ HasDetach(PyItem(PyItem(x, 1), 0))
               /\ HasDetach(PyItem(PyItem(x, 1), 1))
            THEN
                LET new_res == PyTuple(<<Detach(PyItem(x, 0)),
                                   PyTuple(<<Detach(PyItem(PyItem(x, 1), 0)),
                                             Detach(PyItem(PyItem(x, 1), 1))>>)>>)
                IN [self |-> [self EXCEPT !.stats_rnn = Append(@, new_res)],
                    ret |-> x, err |-> "none"]
            ELSE [self |-> self, ret |-> NoValue, err |-> "AttributeError"]
        ELSE [self |-> self, ret |-> x, err |-> "none"]
    ELSE [self |-> self, ret |-> x, err |-> "none"]

ForwardMutKeepsLast(self, x) ==
    IF ~self.enabled THEN [self |-> self, ret |-> x, err |-> "none"]
    ELSE IF IsTensor(x) THEN
        [self |-> [self EXCEPT !.stats = <<Detach(x)>>],
         ret |-> x, err |-> "none"]
    ELSE IF IsTuple(x) /\ PyLen(x) = 2 THEN
        IF ~HasLen(PyItem(x, 1)) THEN
            [self |-> self, ret |-> NoValue, err |-> "TypeError"]
        ELSE IF PyLen(PyItem(x, 1)) = 2 THEN
            IF /\ HasDetach(PyItem(x, 0))
               /\ HasDetach(PyItem(PyItem(x, 1), 0))
               /\ HasDetach(PyItem(PyItem(x, 1), 1))
            THEN
                LET new_res == PyTuple(<<Detach(PyItem(x, 0)),
                                   PyTuple(<<Detach(PyItem(PyItem(x, 1), 0)),
                                             Detach(PyItem(PyItem(x, 1), 1))>>)>>)
                IN [self |-> [self EXCEPT !.stats_rnn = Append(@, new_res)],
                    ret |-> x, err |-> "none"]
            ELSE [self |-> self, ret |-> NoValue, err |-> "AttributeError"]
        ELSE [self |-> self, ret |-> x, err |-> "none"]
    ELSE [self |-> self, ret |-> x, err |-> "none"]

\* OutputLogger.forward: the logger after the call, the value returned and
\* the exception raised
Forward(self, x) ==
    IF ~self.enabled THEN [self |-> self, ret |-> x, err |-> "none"]
    ELSE IF IsTensor(x) THEN
        [self |-> [self EXCEPT !.stats = Append(@, Detach(x))],
         ret |-> x, err |-> "none"]
    ELSE IF IsTuple(x) /\ PyLen(x) = 2 THEN
        IF ~HasLen(PyItem(x, 1)) THEN
            [self |-> self, ret |-> NoValue, err |-> "TypeError"]
        ELSE IF PyLen(PyItem(x, 1)) = 2 THEN
            IF /\ HasDetach(PyItem(x, 0))
               /\ HasDetach(PyItem(PyItem(x, 1), 0))
               /\ HasDetach(PyItem(PyItem(x, 1), 1))
            THEN
                LET new_res == PyTuple(<<Detach(PyItem(x, 0)),
                                   PyTuple(<<Detach(PyItem(PyItem(x, 1), 0)),
                                             Detach(PyItem(PyItem(x, 1), 1))>>)>>)
                IN [self |-> [self EXCEPT !.stats_rnn = Append(@, new_res)],
                    ret |-> x, err |-> "none"]
            ELSE [self |-> self, ret |-> NoValue, err |-> "AttributeError"]
        ELSE [self |-> self, ret |-> x, err |-> "none"]
    ELSE [self |-> self, ret |-> x, err |-> "none"]

NoCall == [op |-> "init", l |-> 0, x |-> NoValue, m1 |-> "", m2 |-> "", name |-> ""]

\* a graph execution reaches logger l with value x
CallForward(l, x) ==
    /\ numCalls < MaxCalls
    /\ LET out == Forward(loggers[l], x)
       IN /\ loggers' = [loggers EXCEPT ![l] = out.self]
          /\ ret' = out.ret
          /\ err' = out.err
    /\ lastCall' = [NoCall EXCEPT !.op = "forward", !.l = l, !.x = x]
    /\ numCalls' = numCalls + 1
    /\ numTensorCalls' =
           [numTensorCalls EXCEPT
               ![l] = IF loggers[l].enabled /\ IsTensor(x) THEN @ + 1 ELSE @]
    /\ UNCHANGED <<results, entryVars, sweepVars, matchVars>>

\* assignment to the public attribute `enabled`
SetEnabled(l, b) ==
    /\ loggers[l].enabled # b
    /\ loggers' = [loggers EXCEPT ![l].enabled = b]
    /\ ret' = NoValue
    /\ err' = "none"
    /\ lastCall' = [NoCall EXCEPT !.op = "set_enabled", !.l = l]
    /\ UNCHANGED <<results, numCalls, numTensorCalls, entryVars, sweepVars, matchVars>>

EmptyDict == <<>>

\* one entry of the log of an entry point: a call or a graph edit and the
\* attribute or node name it is about
Step(ev) == [ev |-> ev, name |-> <<>>]
StepOn(ev, name) == [ev |-> ev, name |-> name]

\* the variables of the parts of the program a specification leaves out
NoSweep == [subgraphs |-> <<>>, qconfig_mappings |-> <<>>, attrs |-> <<>>,
            enabled |-> <<FALSE, FALSE>>]
NoModel == [prepared |-> FALSE, converted |-> FALSE, attrs |-> <<>>, nodes |-> <<>>,
            wrappers |-> <<>>, recompiles |-> 0]
NoMatch == [graph_a |-> <<>>, graph_b |-> <<>>, table |-> {}, unmatchable |-> {}]
NoRequests == [inputs_a |-> <<>>, inputs_b |-> <<>>, outputs_a |-> <<>>, outputs_b |-> <<>>]

IdleEntry == steps = <<>> /\ extracts = <<>>
IdleSweep == sweep = NoSweep /\ mt = NoModel /\ grouped = EmptyDict
IdleMatch == match = NoMatch /\ pairs = <<>> /\ requests = NoRequests

InitLogger ==
    /\ loggers = [l \in 1..NumProbes |-> NewLogger("m0", "a", "node_output", 0, 0)]
    /\ results = EmptyDict
    /\ ret = NoValue
    /\ err = "none"
    /\ lastCall = NoCall
    /\ numCalls = 0
    /\ numTensorCalls = [l \in 1..NumProbes |-> 0]
    /\ IdleEntry /\ IdleSweep /\ IdleMatch

NextLogger ==
    \/ \E l \in 1..NumProbes, x \in InputValues : CallForward(l, x)
    \/ \E l \in 1..NumProbes, b \in BOOLEAN : SetEnabled(l, b)

SpecLogger == InitLogger /\ [][NextLogger]_vars

(***************************************************************************)
(* Python dicts keep insertion order: a dict is a sequence of [k, v]       *)
(* entries with distinct keys.                                             *)
(***************************************************************************)
DictKeys(d) == {d[i].k : i \in DOMAIN d}
DictHas(d, key) == key \in DictKeys(d)
DictIdx(d, key) == CHOOSE i \in DOMAIN d : d[i].k = key
DictGet(d, key) == d[DictIdx(d, key)].v
DictSet(d, key, val) ==
    IF DictHas(d, key) THEN [d EXCEPT ![DictIdx(d, key)].v = val]
    ELSE Append(d, [k |-> key, v |-> val])

(***************************************************************************)
(* _extract_logger_info_one_model                                          *)
(***************************************************************************)
\* str(n) of an int, as the sequence of its characters' code points
RECURSIVE FormatInt(_)
FormatInt(n) ==
    IF n < 0 THEN <<45>> \o FormatInt(-n)
    ELSE IF n < 10 THEN <<48 + n>>
    ELSE FormatInt(n \div 10) \o <<48 + (n % 10)>>

\* the sort key f"{res['index_of_arg']}:{res['index_within_arg']}"
SortKey(res) ==
    FormatInt(res.index_of_arg) \o <<58>> \o FormatInt(res.index_within_arg)

\* s < t on Python strings: lexicographic by code point
StrLess(s, t) ==
    \E k \in 1..(Len(s) + 1) :
        /\ k <= Len(t)
        /\ \A j \in 1..(k - 1) : s[j] = t[j]
        /\ (k = Len(s) + 1 \/ s[k] < t[k])

\* list.sort(key=...) is stable: x goes after every element whose key is
\* not greater than its own
RECURSIVE InsertByKey(_, _)
InsertByKey(sorted, x) ==
    IF sorted = <<>> THEN <<x>>
    ELSE IF StrLess(SortKey(x), SortKey(sorted[Len(sorted)]))
         THEN Append(InsertByKey(SubSeq(sorted, 1, Len(sorted) - 1), x),
                     sorted[Len(sorted)])
         ELSE Append(sorted, x)

RECURSIVE SortByKey(_)
SortByKey(list) ==
    IF list = <<>> THEN <<>>
    ELSE InsertByKey(SortByKey(SubSeq(list, 1, Len(list) - 1)), list[Len(list)])

LoggerRecordMutPrefersStats(mod) ==
    LET stats_to_use == IF Len(mod.stats) > 0 THEN mod.stats ELSE mod.stats_rnn
    IN [ type |-> mod.results_type,
         values |-> stats_to_use,
         ref_node_name |-> mod.ref_node_name,
         ref_node_target_type |-> mod.ref_node_target_type,
         prev_node_name |-> mod.prev_node_name,
         prev_node_target_type |-> mod.prev_node_target_type,
         index_within_arg |-> mod.index_within_arg,
         index_of_arg |-> mod.index_of_arg,
         fqn |-> mod.fqn,
         qconfig_str |-> mod.qconfig_str ]

\* the record appended for one logger
LoggerRecord(mod) ==
    LET stats_to_use == IF Len(mod.stats_rnn) > 0 THEN mod.stats_rnn ELSE mod.stats
    IN [ type |-> mod.results_type,
         values |-> stats_to_use,
         ref_node_name |-> mod.ref_node_name,
         ref_node_target_type |-> mod.ref_node_target_type,
         prev_node_name |-> mod.prev_node_name,
         prev_node_target_type |-> mod.prev_node_target_type,
         index_within_arg |-> mod.index_within_arg,
         index_of_arg |-> mod.index_of_arg,
         fqn |-> mod.fqn,
         qconfig_str |-> mod.qconfig_str ]

VisitLoggerMutResetsList(res, mod) ==
    LET key == mod.ref_name
        r1 == IF ~DictHas(res, key) THEN DictSet(res, key, EmptyDict) ELSE res
    IN IF DictHas(DictGet(r1, key), mod.model_name)
       THEN [results |-> r1, err |-> "AssertionError"]
       ELSE
         LET byType1 == DictGet(r1, key)
             byType2 == IF ~DictHas(byType1, mod.results_type)
                        THEN DictSet(byType1, mod.results_type, EmptyDict)
                        ELSE byType1
             byModel1 == DictGet(byType2, mod.results_type)
             byModel2 == DictSet(byModel1, mod.model_name, <<>>)
             list == Append(DictGet(byModel2, mod.model_name), LoggerRecord(mod))
             byModel3 == DictSet(byModel2, mod.model_name, SortByKey(list))
         IN [results |-> DictSet(r1, key, DictSet(byType2, mod.results_type, byModel3)),
             err |-> "none"]

\* the body of the loop for one logger module
VisitLogger(res, mod) ==
    LET key == mod.ref_name
        r1 == IF ~DictHas(res, key) THEN DictSet(res, key, EmptyDict) ELSE res
    IN IF DictHas(DictGet(r1, key), mod.model_name)
       THEN [results |-> r1, err |-> "AssertionError"]
       ELSE
         LET byType1 == DictGet(r1, key)
             byType2 == IF ~DictHas(byType1, mod.results_type)
                        THEN DictSet(byType1, mod.results_type, EmptyDict)
                        ELSE byType1
             byModel1 == DictGet(byType2, mod.results_type)
             byModel2 == IF ~DictHas(byModel1, mod.model_name)
                         THEN DictSet(byModel1, mod.model_name, <<>>)
                         ELSE byModel1
             list == Append(DictGet(byModel2, mod.model_name), LoggerRecord(mod))
             byModel3 == DictSet(byModel2, mod.model_name, SortByKey(list))
         IN [results |-> DictSet(r1, key, DictSet(byType2, mod.results_type, byModel3)),
             err |-> "none"]

\* the loop over model.named_modules(), from the i-th module on
RECURSIVE ExtractFrom(_, _, _)
ExtractFrom(mods, i, res) ==
    IF i > Len(mods) THEN [results |-> res, err |-> "none"]
    ELSE LET out == VisitLogger(res, mods[i])
         IN IF out.err # "none" THEN out
            ELSE ExtractFrom(mods, i + 1, out.results)

\* _extract_logger_info_one_model(model, results, OutputLogger) on an empty
\* results dict, as extract_results_n_shadows_model calls it
ExtractLoggerInfoOneModel ==
    /\ LET out == ExtractFrom(loggers, 1, EmptyDict)
       IN /\ results' = out.results
          /\ err' = out.err
    /\ ret' = NoValue
    /\ lastCall' = [NoCall EXCEPT !.op = "extract"]
    /\ steps' = <<Step("_extract_logger_info_one_model")>>
    /\ UNCHANGED <<loggers, numCalls, numTensorCalls, extracts, sweepVars, matchVars>>

\* a logger that has been executed: metadata from construction, captures
\* from forward calls
ExecutedLogger(ref_name, model_name, results_type, idx, stats) ==
    [NewLogger(ref_name, model_name, results_type, idx[1], idx[2])
        EXCEPT !.stats = stats]

\* <<index_of_arg, index_within_arg>> of the loggers that are aggregated
ExtractIndexPairs == {<<0, 2>>, <<0, 10>>, <<10, 0>>}

\* probes of match name m0 at every index pair, and probes of match name m1
\* at one; a model may be named like a results type
ExtractLoggers ==
    { ExecutedLogger("m0", mn, rt, idx, <<Detach(T1)>>) :
        mn \in {"a", "node_output"}, rt \in ResultsTypes, idx \in ExtractIndexPairs }
    \cup
    { ExecutedLogger("m1", mn, rt, <<0, 2>>, <<Detach(T1)>>) :
        mn \in {"a", "node_output"}, rt \in ResultsTypes }

InitExtract ==
    /\ loggers \in [1..NumLoggers -> ExtractLoggers]
    /\ results = EmptyDict
    /\ ret = NoValue
    /\ err = "none"
    /\ lastCall = NoCall
    /\ numCalls = 0
    /\ numTensorCalls = [l \in 1..NumLoggers |-> 1]
    /\ IdleEntry /\ IdleSweep /\ IdleMatch

NextExtract == ExtractLoggerInfoOneModel

SpecExtract == InitExtract /\ [][NextExtract]_vars

(***************************************************************************)
(* extend_logger_results_with_comparison                                   *)
(***************************************************************************)
\* the caller's comparison_fn, a function of the ordered pair of values
ComparisonFn(value_1, value_2) == <<value_1, value_2>>

MinOf(S) == CHOOSE n \in S : \A m \in S : n <= m

ZipCompareMutRunsOverSecond(values_1, values_2) ==
    [n \in 1..Len(values_2) |->
        IF n <= Len(values_1) THEN ComparisonFn(values_1[n], values_2[n])
        ELSE ComparisonFn(values_2[n], values_2[n])]

\* zip(values_1, values_2) stops at the end of the shorter list
ZipCompare(values_1, values_2) ==
    [n \in 1..MinOf({Len(values_1), Len(values_2)}) |->
        ComparisonFn(values_1[n], values_2[n])]

\* positions of the records of results_1 at the index pair of result_2
MatchesOf(results_1, result_2) ==
    { p \in DOMAIN results_1 :
        /\ results_1[p].index_within_arg = result_2.index_within_arg
        /\ results_1[p].index_of_arg = result_2.index_of_arg }

CompareOneRecordMutSwapsArgs(results_1, result_2, comparison_name) ==
    LET matches == MatchesOf(results_1, result_2)
    IN IF matches = {} THEN [rec |-> result_2, err |-> "AssertionError"]
       ELSE LET result_1 == results_1[MinOf(matches)]
            IN [rec |-> (comparison_name :>
                            ZipCompare(result_2.values, result_1.values)) @@ result_2,
                err |-> "none"]

CompareOneRecordMutSkipsUnmatched(results_1, result_2, comparison_name) ==
    LET matches == MatchesOf(results_1, result_2)
    IN IF matches = {} THEN [rec |-> result_2, err |-> "none"]
       ELSE LET result_1 == results_1[MinOf(matches)]
            IN [rec |-> (comparison_name :>
                            ZipCompare(result_1.values, result_2.values)) @@ result_2,
                err |-> "none"]

\* the body of `for result_2 in results_2`: the first record of results_1
\* at the same index pair is compared with result_2
CompareOneRecord(results_1, result_2, comparison_name) ==
    LET matches == MatchesOf(results_1, result_2)
    IN IF matches = {} THEN [rec |-> result_2, err |-> "AssertionError"]
       ELSE LET result_1 == results_1[MinOf(matches)]
            IN [rec |-> (comparison_name :>
                            ZipCompare(result_1.values, result_2.values)) @@ result_2,
                err |-> "none"]

\* `for result_2 in results_2`, from the q-th record on; the records are
\* changed in place, so results_1 is read from the current lists
RECURSIVE CompareRecordsFrom(_, _, _, _, _)
CompareRecordsFrom(byModel, q, model_name_1, model_name_2, comparison_name) ==
    IF q > Len(DictGet(byModel, model_name_2)) THEN [v |-> byModel, err |-> "none"]
    ELSE LET results_1 == DictGet(byModel, model_name_1)
             results_2 == DictGet(byModel, model_name_2)
             out == CompareOneRecord(results_1, results_2[q], comparison_name)
         IN IF out.err # "none" THEN [v |-> byModel, err |-> out.err]
            ELSE CompareRecordsFrom(
                     DictSet(byModel, model_name_2, [results_2 EXCEPT ![q] = out.rec]),
                     q + 1, model_name_1, model_name_2, comparison_name)

CompareOneGroupMutSkipsMissing(byModel, model_name_1, model_name_2, comparison_name) ==
    IF ~DictHas(byModel, model_name_1) \/ ~DictHas(byModel, model_name_2)
    THEN [v |-> byModel, err |-> "none"]
    ELSE CompareRecordsFrom(byModel, 1, model_name_1, model_name_2, comparison_name)

\* the body of the loop over the match-name/result-type groups
CompareOneGroup(byModel, model_name_1, model_name_2, comparison_name) ==
    IF ~DictHas(byModel, model_name_1) THEN [v |-> byModel, err |-> "AssertionError"]
    ELSE IF ~DictHas(byModel, model_name_2) THEN [v |-> byModel, err |-> "AssertionError"]
    ELSE CompareRecordsFrom(byModel, 1, model_name_1, model_name_2, comparison_name)

\* the two nested loops over results.items(), from group (i, j) on
RECURSIVE CompareFrom(_, _, _, _, _, _)
CompareFrom(res, i, j, model_name_1, model_name_2, comparison_name) ==
    IF i > Len(res) THEN [results |-> res, err |-> "none"]
    ELSE IF j > Len(res[i].v)
         THEN CompareFrom(res, i + 1, 1, model_name_1, model_name_2, comparison_name)
    ELSE LET out == CompareOneGroup(res[i].v[j].v, model_name_1, model_name_2,
                                    comparison_name)
             res2 == [res EXCEPT ![i].v[j].v = out.v]
         IN IF out.err # "none" THEN [results |-> res2, err |-> out.err]
            ELSE CompareFrom(res2, i, j + 1, model_name_1, model_name_2,
                             comparison_name)

ExtendLoggerResultsWithComparison(model_name_1, model_name_2, comparison_name) ==
    /\ LET out == CompareFrom(results, 1, 1, model_name_1, model_name_2,
                              comparison_name)
       IN /\ results' = out.results
          /\ err' = out.err
    /\ ret' = NoValue
    /\ lastCall' = [NoCall EXCEPT !.op = "compare", !.m1 = model_name_1,
                                  !.m2 = model_name_2, !.name = comparison_name]
    /\ UNCHANGED <<loggers, numCalls, numTensorCalls, entryVars, sweepVars, matchVars>>

CompareModelNames == {"a", "b"}
ComparisonNames == {"sqnr"}
CompareIndexPairs == {<<0, 2>>, <<0, 10>>}

\* output probes at either index pair with one or two captures, and input
\* probes of one argument position
CompareLoggers ==
    { ExecutedLogger("m0", mn, "node_output", idx, stats) :
        mn \in CompareModelNames, idx \in CompareIndexPairs,
        stats \in {<<Detach(T1)>>, <<T2, Detach(T1)>>} }
    \cup
    { ExecutedLogger("m0", mn, "node_input", <<0, 2>>, <<Detach(T1)>>) :
        mn \in CompareModelNames }

InitCompare ==
    /\ loggers \in [1..NumLoggers -> CompareLoggers]
    /\ results = EmptyDict
    /\ ret = NoValue
    /\ err = "none"
    /\ lastCall = NoCall
    /\ numCalls = 0
    /\ numTensorCalls = [l \in 1..NumLoggers |-> Len(loggers[l].stats)]
    /\ IdleEntry /\ IdleSweep /\ IdleMatch

NextCompare ==
    \/ ExtractLoggerInfoOneModel
    \/ \E model_name_1, model_name_2 \in CompareModelNames,
          comparison_name \in ComparisonNames :
           ExtendLoggerResultsWithComparison(model_name_1, model_name_2,
                                             comparison_name)

SpecCompare == InitCompare /\ [][NextCompare]_vars

(***************************************************************************)
(* Properties of OutputLogger.forward                                      *)
(***************************************************************************)
IsPrefix(s, t) == Len(s) <= Len(t) /\ SubSeq(t, 1, Len(s)) = s

\* C1: forward returns exactly its input, for a single tensor and for a
\* paired/recurrent value, whether the logger is enabled or disabled; the
\* detached snapshot is never what the caller gets back.
C1_ForwardReturnsInput ==
    (lastCall.op = "forward" /\ (IsTensor(lastCall.x) \/ IsRNNReturnType(lastCall.x)))
        => (err = "none" /\ ret = lastCall.x)

\* an enabled logger captured a paired value whose snapshot differs from it,
\* and a call on a tensor attached to the graph returned that tensor
C1_Witness ==
    /\ lastCall.op = "forward"
    /\ loggers[lastCall.l].enabled
    /\ IsTensor(lastCall.x) /\ lastCall.x.att
    /\ ret = lastCall.x
    /\ Len(loggers[lastCall.l].stats) > 0
    /\ Len(loggers[lastCall.l].stats_rnn) > 0

C2_Count == \A l \in DOMAIN loggers : Len(loggers[l].stats) = numTensorCalls[l]

C2_Step ==
    \A l \in DOMAIN loggers :
        IF /\ lastCall'.op = "forward" /\ lastCall'.l = l
           /\ loggers[l].enabled /\ IsTensor(lastCall'.x)
        THEN /\ Len(loggers'[l].stats) = Len(loggers[l].stats) + 1
             /\ IsPrefix(loggers[l].stats, loggers'[l].stats)
             /\ LET snap == loggers'[l].stats[Len(loggers'[l].stats)]
                IN IsTensor(snap) /\ snap.id = lastCall'.x.id /\ ~snap.att
        ELSE loggers'[l].stats = loggers[l].stats

\* C2: stats is append-only.  A call made while enabled with a single tensor
\* appends exactly one snapshot of that tensor at the end, every other step
\* leaves stats as it was, and len(stats) is always the number of enabled
\* single-tensor calls made on the logger.
C2_AppendOnly == []C2_Count /\ [][C2_Step]_vars

\* three calls on one logger, two of them captured in order
C2_Witness ==
    \E l \in DOMAIN loggers :
        /\ Len(loggers[l].stats) = 2
        /\ loggers[l].stats[1].id # loggers[l].stats[2].id
        /\ numCalls = 3
        /\ lastCall.op = "forward" /\ lastCall.l = l

C3_Step ==
    /\ \A l \in DOMAIN loggers :
           (lastCall'.op = "forward" /\ lastCall'.l = l /\ ~loggers[l].enabled)
               => (loggers' = loggers /\ ret' = lastCall'.x /\ err' = "none")
    /\ lastCall'.op = "set_enabled"
           => \A l \in DOMAIN loggers :
                  /\ loggers'[l].stats = loggers[l].stats
                  /\ loggers'[l].stats_rnn = loggers[l].stats_rnn
    /\ \A l \in DOMAIN loggers :
           (/\ lastCall'.op = "forward" /\ lastCall'.l = l
            /\ loggers[l].enabled /\ IsTensor(lastCall'.x))
               => Len(loggers'[l].stats) = Len(loggers[l].stats) + 1

\* C3: forward on a disabled logger changes no capture list and returns its
\* input, for every input; changing `enabled` keeps the snapshots captured
\* so far, and an enabled logger captures again.
C3_DisabledIsNoOp == [][C3_Step]_vars

\* a disabled logger that holds an earlier snapshot was just called with a
\* tensor
C3_Witness ==
    /\ lastCall.op = "forward"
    /\ IsTensor(lastCall.x)
    /\ ~loggers[lastCall.l].enabled
    /\ Len(loggers[lastCall.l].stats) = 1
    /\ numCalls = 2

C4_Step ==
    \A l \in DOMAIN loggers :
        (/\ lastCall'.op = "forward" /\ lastCall'.l = l
         /\ loggers[l].enabled
         /\ ~IsTensor(lastCall'.x) /\ ~IsRNNReturnType(lastCall'.x))
            => (loggers' = loggers /\ ret' = lastCall'.x /\ err' = "none")

\* C4: on an enabled logger every value that is neither a single tensor nor
\* a 2-tuple whose second element is a 2-tuple of tensors is returned
\* unchanged, captured nowhere, and raises no error.
C4_OtherShapesPassThrough == [][C4_Step]_vars

(***************************************************************************)
(* Properties of the aggregation                                           *)
(***************************************************************************)
\* the list under results[rn][rt][mn], empty when a key is missing
RecordsUnder(res, rn, rt, mn) ==
    IF ~DictHas(res, rn) THEN <<>>
    ELSE IF ~DictHas(DictGet(res, rn), rt) THEN <<>>
    ELSE IF ~DictHas(DictGet(DictGet(res, rn), rt), mn) THEN <<>>
    ELSE DictGet(DictGet(DictGet(res, rn), rt), mn)

AllRecordLists(res) ==
    { RecordsUnder(res, rn, rt, mn) :
        rn \in RefNames, rt \in ResultsTypes, mn \in ModelNames }

\* (index_of_arg, index_within_arg) of a before-or-equal that of b, as numbers
IndexPairLeq(a, b) ==
    \/ a.index_of_arg < b.index_of_arg
    \/ a.index_of_arg = b.index_of_arg /\ a.index_within_arg <= b.index_within_arg

\* C5: every record list of the results is sorted ascending by the numeric
\* pair (index_of_arg, index_within_arg), for indices of any number of digits.
C5_SortedByNumericIndexPair ==
    \A list \in AllRecordLists(results) :
        \A p, q \in DOMAIN list : p < q => IndexPairLeq(list[p], list[q])

SameGroupAndModel(m1, m2) ==
    /\ m1.ref_name = m2.ref_name
    /\ m1.results_type = m2.results_type
    /\ m1.model_name = m2.model_name

\* C6: when two visited loggers share ref_name, results_type and model_name
\* the extraction raises.
C6_DuplicateModelNameRaises ==
    (/\ lastCall.op = "extract"
     /\ \E i, j \in DOMAIN loggers : i # j /\ SameGroupAndModel(loggers[i], loggers[j]))
        => err = "AssertionError"

\* C7: a successful extraction holds exactly one record per logger, each
\* under results[ref_name][results_type][model_name] of its logger, and
\* nothing under any other key.
C7_OneRecordPerLogger ==
    (lastCall.op = "extract" /\ err = "none") =>
        /\ DictKeys(results) \subseteq RefNames
        /\ \A i \in DOMAIN results :
               /\ DictKeys(results[i].v) \subseteq ResultsTypes
               /\ \A j \in DOMAIN results[i].v :
                      DictKeys(results[i].v[j].v) \subseteq ModelNames
        /\ \A rn \in RefNames, rt \in ResultsTypes, mn \in ModelNames :
               LET list == RecordsUnder(results, rn, rt, mn)
                   here == {l \in DOMAIN loggers :
                               /\ loggers[l].ref_name = rn
                               /\ loggers[l].results_type = rt
                               /\ loggers[l].model_name = mn}
               IN /\ Len(list) = Cardinality(here)
                  /\ \A l \in here :
                         Cardinality({p \in DOMAIN list : list[p] = LoggerRecord(loggers[l])})
                             = Cardinality({m \in here :
                                   LoggerRecord(loggers[m]) = LoggerRecord(loggers[l])})

\* a successful extraction of a model whose loggers share a match name: an
\* input and an output probe, and two argument positions of one probe kind
C7_Witness ==
    /\ lastCall.op = "extract" /\ err = "none"
    /\ \E i, j, k \in DOMAIN loggers :
           /\ i # j /\ j # k /\ i # k
           /\ loggers[i].ref_name = loggers[j].ref_name
           /\ loggers[i].model_name = loggers[j].model_name
           /\ loggers[i].results_type # loggers[j].results_type
           /\ SameGroupAndModel(loggers[j], loggers[k])
           /\ loggers[j].index_within_arg # loggers[k].index_within_arg

(***************************************************************************)
(* Properties of the comparison                                            *)
(***************************************************************************)
\* the match-name/result-type groups, as positions in the results dict
Groups(res) ==
    UNION { {<<i, j>> : j \in DOMAIN res[i].v} : i \in DOMAIN res }

GroupOf(res, g) == res[g[1]].v[g[2]].v

ListOf(byModel, mn) == IF DictHas(byModel, mn) THEN DictGet(byModel, mn) ELSE <<>>

SameIndexPair(a, b) ==
    a.index_of_arg = b.index_of_arg /\ a.index_within_arg = b.index_within_arg

\* C8: after a comparison that returned, every model-2 record carries under
\* the caller's key the list whose i-th element is
\* comparison_fn(values_1[i], values_2[i]), values_1 being those of the
\* (first) model-1 record of the group at the same index pair.
C8_ComparisonPairsByIndex ==
    (lastCall.op = "compare" /\ err = "none") =>
        \A g \in Groups(results) :
            LET list1 == ListOf(GroupOf(results, g), lastCall.m1)
                list2 == ListOf(GroupOf(results, g), lastCall.m2)
            IN \A q \in DOMAIN list2 :
                   \E p \in DOMAIN list1 :
                       /\ SameIndexPair(list1[p], list2[q])
                       /\ \A p2 \in 1..(p - 1) : ~SameIndexPair(list1[p2], list2[q])
                       /\ lastCall.name \in DOMAIN list2[q]
                       /\ LET cmp == list2[q][lastCall.name]
                              v1 == list1[p].values
                              v2 == list2[q].values
                          IN /\ \A n \in DOMAIN cmp : n <= Len(v1) /\ n <= Len(v2)
                             /\ \A n \in DOMAIN cmp : cmp[n] = ComparisonFn(v1[n], v2[n])
                             /\ Len(cmp) = Len(v1) \/ Len(cmp) = Len(v2)

\* two different models compared; the model-2 record is paired with the
\* second model-1 record of its group, the one at its index pair, and two
\* captures are compared in order
C8_Witness ==
    /\ lastCall.op = "compare" /\ err = "none"
    /\ lastCall.m1 # lastCall.m2
    /\ \E g \in Groups(results) :
           LET list1 == ListOf(GroupOf(results, g), lastCall.m1)
               list2 == ListOf(GroupOf(results, g), lastCall.m2)
           IN /\ Len(list1) = 2 /\ Len(list2) = 1
              /\ ~SameIndexPair(list1[1], list2[1])
              /\ SameIndexPair(list1[2], list2[1])
              /\ list1[1].values # list1[2].values
              /\ Len(list2[1][lastCall.name]) = 2

SomeGroupLacksModel ==
    \E g \in Groups(results) :
        \/ ~DictHas(GroupOf(results, g), lastCall.m1)
        \/ ~DictHas(GroupOf(results, g), lastCall.m2)

\* C9: a comparison over results in which some group has no entry for
\* model_name_1 or for model_name_2 raises.
C9_MissingModelRaises ==
    (lastCall.op = "compare" /\ SomeGroupLacksModel) => err = "AssertionError"

\* the first group holds both models, a later one lacks one, and the call
\* raised
C9_Witness ==
    /\ lastCall.op = "compare" /\ err = "AssertionError"
    /\ Cardinality(Groups(results)) = 2
    /\ \E g \in Groups(results) :
           /\ DictHas(GroupOf(results, g), lastCall.m1)
           /\ DictHas(GroupOf(results, g), lastCall.m2)
           /\ \A q \in DOMAIN DictGet(GroupOf(results, g), lastCall.m2) :
                  lastCall.name \in DOMAIN DictGet(GroupOf(results, g), lastCall.m2)[q]
    /\ SomeGroupLacksModel

SomeRecordLacksCounterpart ==
    \E g \in Groups(results) :
        LET list1 == ListOf(GroupOf(results, g), lastCall.m1)
            list2 == ListOf(GroupOf(results, g), lastCall.m2)
        IN \E q \in DOMAIN list2 :
               \A p \in DOMAIN list1 : ~SameIndexPair(list1[p], list2[q])

\* C10: a comparison over results in which some model-2 record has no
\* model-1 record of its group at the same index pair raises.
C10_MissingCounterpartRaises ==
    (lastCall.op = "compare" /\ SomeRecordLacksCounterpart) => err = "AssertionError"

\* every group holds both models, a model-2 record has no counterpart, and
\* the call raised leaving that record without a comparison
C10_Witness ==
    /\ lastCall.op = "compare" /\ err = "AssertionError"
    /\ ~SomeGroupLacksModel
    /\ \E g \in Groups(results) :
           LET list1 == ListOf(GroupOf(results, g), lastCall.m1)
               list2 == ListOf(GroupOf(results, g), lastCall.m2)
           IN \E q \in DOMAIN list2 :
                  /\ \A p \in DOMAIN list1 : ~SameIndexPair(list1[p], list2[q])
                  /\ lastCall.name \notin DOMAIN list2[q]

(***************************************************************************)
(* The extraction entry points: extract_weights, extract_logger_info,      *)
(* extract_shadow_logger_info and extract_results_n_shadows_model.         *)
(***************************************************************************)
MaxExtracts == 2
MaxPasses == 1

\* fqn is Optional[str]: the value of a logger constructed with fqn=None
NoFqn == "<None>"

\* the positions <<model, index>> of the records of one group that have a fqn
WithFqn(byModel) ==
    { mi \in UNION { {<<m, i>> : i \in DOMAIN byModel[m].v} : m \in DOMAIN byModel } :
        byModel[mi[1]].v[mi[2]].fqn # NoFqn }

\* the fqn of the first record of the group that has one, in dict and list
\* order; the records of one group share their reference node
SiblingFqn(byModel) ==
    IF WithFqn(byModel) = {} THEN NoFqn
    ELSE LET first == CHOOSE mi \in WithFqn(byModel) :
                        \A o \in WithFqn(byModel) :
                            mi[1] < o[1] \/ (mi[1] = o[1] /\ mi[2] <= o[2])
         IN byModel[first[1]].v[first[2]].fqn

\* one group after the backfill: a record without fqn gets its sibling's
BackfillGroup(byModel) ==
    [ m \in DOMAIN byModel |->
        [ k |-> byModel[m].k,
          v |-> [ i \in DOMAIN byModel[m].v |->
                    IF byModel[m].v[i].fqn = NoFqn
                    THEN [byModel[m].v[i] EXCEPT !.fqn = SiblingFqn(byModel)]
                    ELSE byModel[m].v[i] ] ] ]

\* maybe_add_missing_fqns(results)
MaybeAddMissingFqns(res) ==
    [ g \in DOMAIN res |->
        [ k |-> res[g].k,
          v |-> [ t \in DOMAIN res[g].v |->
                    [ k |-> res[g].v[t].k, v |-> BackfillGroup(res[g].v[t].v) ] ] ] ]

\* the ref_node_name of the first record of model_name in one
\* result-type-to-groups dict, or old_name when model_name has no record
RECURSIVE NewLayerName(_, _, _, _)
NewLayerName(byType, t, model_name, old_name) ==
    IF t > Len(byType) THEN old_name
    ELSE IF /\ DictHas(byType[t].v, model_name)
            /\ Len(DictGet(byType[t].v, model_name)) > 0
         THEN DictGet(byType[t].v, model_name)[1].ref_node_name
         ELSE NewLayerName(byType, t + 1, model_name, old_name)

\* rekey_logger_info_on_node_name_of_model(results, model_name), from the
\* i-th match name on
RECURSIVE RekeyFrom(_, _, _, _)
RekeyFrom(res, i, model_name, new_results) ==
    IF i > Len(res) THEN new_results
    ELSE RekeyFrom(res, i + 1, model_name,
                   DictSet(new_results,
                           NewLayerName(res[i].v, 1, model_name, res[i].k),
                           res[i].v))

RekeyLoggerInfoOnNodeNameOfModel(res, model_name) ==
    RekeyFrom(res, 1, model_name, EmptyDict)

\* the logger modules of the model that add_loggers built under model_name
ModulesOf(model_name) ==
    SelectSeq(loggers, LAMBDA mod : mod.model_name = model_name)

\* one entry of the log of the extract_logger_info calls
ExtractEntry(model_name_to_use, out_results, out_err) ==
    [ model_name_to_use |-> model_name_to_use,
      results |-> out_results, err |-> out_err ]

ExtractLoggerInfoMutDrainsStats(model_name_to_use) ==
    /\ Len(extracts) < MaxExtracts
    /\ \E out_a \in {ExtractFrom(ModulesOf("a"), 1, EmptyDict)} :
       \E out_b \in {IF out_a.err # "none" THEN out_a
                     ELSE ExtractFrom(ModulesOf("b"), 1, out_a.results)} :
       \E filled \in {MaybeAddMissingFqns(out_b.results)} :
       \E rekeyed \in {RekeyLoggerInfoOnNodeNameOfModel(filled, model_name_to_use)} :
          /\ err' = out_b.err
          /\ results' = IF out_b.err # "none" THEN results ELSE rekeyed
          /\ steps' = IF out_a.err # "none"
                      THEN <<Step("_extract_logger_info_one_model")>>
                      ELSE IF out_b.err # "none"
                      THEN <<Step("_extract_logger_info_one_model"),
                             Step("_extract_logger_info_one_model")>>
                      ELSE <<Step("_extract_logger_info_one_model"),
                             Step("_extract_logger_info_one_model"),
                             Step("maybe_add_missing_fqns"),
                             Step("rekey_logger_info_on_node_name_of_model")>>
          /\ extracts' = Append(extracts,
                                ExtractEntry(model_name_to_use,
                                             IF out_b.err # "none" THEN EmptyDict ELSE rekeyed,
                                             out_b.err))
    /\ ret' = NoValue
    /\ lastCall' = [NoCall EXCEPT !.op = "extract_logger_info", !.m1 = model_name_to_use]
    /\ loggers' = [l \in DOMAIN loggers |-> [loggers[l] EXCEPT !.stats = <<>>]]
    /\ UNCHANGED <<numCalls, numTensorCalls, sweepVars, matchVars>>

\* extract_logger_info(model_a, model_b, OutputLogger, model_name_to_use)
ExtractLoggerInfo(model_name_to_use) ==
    /\ Len(extracts) < MaxExtracts
    /\ \E out_a \in {ExtractFrom(ModulesOf("a"), 1, EmptyDict)} :
       \E out_b \in {IF out_a.err # "none" THEN out_a
                     ELSE ExtractFrom(ModulesOf("b"), 1, out_a.results)} :
       \E filled \in {MaybeAddMissingFqns(out_b.results)} :
       \E rekeyed \in {RekeyLoggerInfoOnNodeNameOfModel(filled, model_name_to_use)} :
          /\ err' = out_b.err
          /\ results' = IF out_b.err # "none" THEN results ELSE rekeyed
          /\ steps' = IF out_a.err # "none"
                      THEN <<Step("_extract_logger_info_one_model")>>
                      ELSE IF out_b.err # "none"
                      THEN <<Step("_extract_logger_info_one_model"),
                             Step("_extract_logger_info_one_model")>>
                      ELSE <<Step("_extract_logger_info_one_model"),
                             Step("_extract_logger_info_one_model"),
                             Step("maybe_add_missing_fqns"),
                             Step("rekey_logger_info_on_node_name_of_model")>>
          /\ extracts' = Append(extracts,
                                ExtractEntry(model_name_to_use,
                                             IF out_b.err # "none" THEN EmptyDict ELSE rekeyed,
                                             out_b.err))
    /\ ret' = NoValue
    /\ lastCall' = [NoCall EXCEPT !.op = "extract_logger_info", !.m1 = model_name_to_use]
    /\ UNCHANGED <<loggers, numCalls, numTensorCalls, sweepVars, matchVars>>

\* extract_shadow_logger_info(model_a_shadows_b, OutputLogger,
\* model_name_to_use): every logger is a module of the one shadow model
ExtractShadowLoggerInfo(model_name_to_use) ==
    /\ \E out \in {ExtractFrom(loggers, 1, EmptyDict)} :
       \E filled \in {MaybeAddMissingFqns(out.results)} :
       \E rekeyed \in {RekeyLoggerInfoOnNodeNameOfModel(filled, model_name_to_use)} :
          /\ err' = out.err
          /\ results' = IF out.err # "none" THEN results ELSE rekeyed
          /\ steps' = IF out.err # "none"
                      THEN <<Step("_extract_logger_info_one_model")>>
                      ELSE <<Step("_extract_logger_info_one_model"),
                             Step("maybe_add_missing_fqns"),
                             Step("rekey_logger_info_on_node_name_of_model")>>
    /\ ret' = NoValue
    /\ lastCall' = [NoCall EXCEPT !.op = "extract_shadow_logger_info",
                                  !.m1 = model_name_to_use]
    /\ UNCHANGED <<loggers, numCalls, numTensorCalls, extracts, sweepVars, matchVars>>

\* extract_results_n_shadows_model(model)
ExtractResultsNShadowsModel == ExtractLoggerInfoOneModel

\* a node handed to extract_weight_from_node: whether a weight can be
\* extracted from it, and the fqn of the extracted record
WeightNode(ref_name, has_weight, fqn) ==
    [ref_name |-> ref_name, has_weight |-> has_weight, fqn |-> fqn]

\* the record extract_weight_from_node returns for a node with a weight
ExtractWeightFromNode(node, model_name) ==
    [ type |-> "weight",
      values |-> <<Detach(T1)>>,
      ref_node_name |-> node.ref_name,
      ref_node_target_type |-> "torch.nn.Linear",
      prev_node_name |-> node.ref_name,
      prev_node_target_type |-> "torch.nn.Linear",
      index_within_arg |-> 0,
      index_of_arg |-> 0,
      fqn |-> node.fqn,
      qconfig_str |-> "" ]

\* _extract_weights_one_model, from the i-th node on
RECURSIVE ExtractWeightsOneModel(_, _, _, _)
ExtractWeightsOneModel(model_name, nodes, i, res) ==
    IF i > Len(nodes) THEN res
    ELSE IF ~nodes[i].has_weight
         THEN ExtractWeightsOneModel(model_name, nodes, i + 1, res)
         ELSE LET ref_name == nodes[i].ref_name
                  r1 == IF ~DictHas(res, ref_name)
                        THEN DictSet(res, ref_name, DictSet(EmptyDict, "weight", EmptyDict))
                        ELSE res
                  byModel == DictSet(DictGet(DictGet(r1, ref_name), "weight"), model_name,
                                     <<ExtractWeightFromNode(nodes[i], model_name)>>)
              IN ExtractWeightsOneModel(model_name, nodes, i + 1,
                     DictSet(r1, ref_name,
                             DictSet(DictGet(r1, ref_name), "weight", byModel)))

\* the base op nodes of the matched subgraphs of model a and of model b
WeightNodesA ==
    { <<WeightNode("m0", TRUE, "fc1"), WeightNode("m1", TRUE, "fc2")>>,
      <<WeightNode("m0", FALSE, NoFqn), WeightNode("m1", TRUE, NoFqn)>> }
WeightNodesB ==
    { <<WeightNode("m0", TRUE, NoFqn), WeightNode("m1", TRUE, "fc2")>>,
      <<WeightNode("m0", TRUE, "fc1"), WeightNode("m1", FALSE, NoFqn)>> }

\* _extract_weights_impl(model_name_a, gm_a, model_name_b, gm_b), after the
\* matched subgraph pairs have been split per model
ExtractWeights(nodes_a, nodes_b) ==
    /\ LET res_a == ExtractWeightsOneModel("a", nodes_a, 1, EmptyDict)
           res_b == ExtractWeightsOneModel("b", nodes_b, 1, res_a)
           filled == MaybeAddMissingFqns(res_b)
       IN results' = RekeyLoggerInfoOnNodeNameOfModel(filled, "b")
    /\ steps' = <<Step("_extract_weights_one_model"),
                  Step("_extract_weights_one_model"),
                  Step("maybe_add_missing_fqns"),
                  Step("rekey_logger_info_on_node_name_of_model")>>
    /\ err' = "none"
    /\ ret' = NoValue
    /\ lastCall' = [NoCall EXCEPT !.op = "extract_weights", !.m1 = "a", !.m2 = "b"]
    /\ UNCHANGED <<loggers, numCalls, numTensorCalls, extracts, sweepVars, matchVars>>

\* one forward pass of the instrumented models: every logger is called once
\* with the tensor that flows through its node
RunModels ==
    /\ numCalls < MaxPasses
    /\ loggers' = [l \in DOMAIN loggers |-> Forward(loggers[l], T2).self]
    /\ numCalls' = numCalls + 1
    /\ numTensorCalls' = [l \in DOMAIN loggers |->
                            numTensorCalls[l] + (IF loggers[l].enabled THEN 1 ELSE 0)]
    /\ ret' = T2
    /\ err' = "none"
    /\ lastCall' = [NoCall EXCEPT !.op = "run"]
    /\ extracts' = <<>>
    /\ UNCHANGED <<results, steps, sweepVars, matchVars>>

\* the name of the node of a model that ends the subgraph of a match
NodeNameOf(ref_name, model_name) ==
    IF model_name = "a" THEN (IF ref_name = "m0" THEN "fc1" ELSE "fc2")
    ELSE (IF ref_name = "m0" THEN "fc1_q" ELSE "fc2_q")

\* an output logger that add_loggers attached and one forward pass filled
EntryLogger(ref_name, model_name, fqn) ==
    [ExecutedLogger(ref_name, model_name, "node_output", <<0, 0>>, <<Detach(T1)>>)
        EXCEPT !.ref_node_name = NodeNameOf(ref_name, model_name),
               !.prev_node_name = NodeNameOf(ref_name, model_name),
               !.fqn = fqn]

EntryLoggers ==
    { EntryLogger("m0", "a", "fc1"), EntryLogger("m0", "b", NoFqn),
      EntryLogger("m1", "b", "fc2") }

InitEntry ==
    /\ loggers \in [1..NumLoggers -> EntryLoggers]
    /\ results = EmptyDict
    /\ ret = NoValue
    /\ err = "none"
    /\ lastCall = NoCall
    /\ numCalls = 0
    /\ numTensorCalls = [l \in 1..NumLoggers |-> 1]
    /\ IdleEntry /\ IdleSweep /\ IdleMatch

NextEntry ==
    \/ \E model_name_to_use \in {"a", "b"} : ExtractLoggerInfo(model_name_to_use)
    \/ \E model_name_to_use \in {"a", "b"} : ExtractShadowLoggerInfo(model_name_to_use)
    \/ ExtractResultsNShadowsModel
    \/ \E nodes_a \in WeightNodesA, nodes_b \in WeightNodesB : ExtractWeights(nodes_a, nodes_b)
    \/ RunModels

SpecEntry == InitEntry /\ [][NextEntry]_vars

(***************************************************************************)
(* Claims about the extraction entry points                                *)
(***************************************************************************)
\* C11: two extract_logger_info calls on the same executed models, with the
\* same arguments and no forward pass in between, return identical results
\* structures, and an extract_logger_info call changes no logger (stats,
\* stats_rnn, enabled and metadata are the fields of the logger record).
C11_SameExtracts ==
    \A i, j \in DOMAIN extracts :
        extracts[i].model_name_to_use = extracts[j].model_name_to_use
        => extracts[i] = extracts[j]

C11_Step ==
    (lastCall'.op = "extract_logger_info" /\ extracts' # extracts) => loggers' = loggers

C11_ExtractionRepeatable == []C11_SameExtracts /\ [][C11_Step]_vars

\* two calls with the same argument after the same forward pass returned a
\* non-empty results structure
C11_Witness ==
    \E i, j \in DOMAIN extracts :
        /\ i < j
        /\ extracts[i].model_name_to_use = extracts[j].model_name_to_use
        /\ numCalls > 0
        /\ extracts[i].err = "none"
        /\ extracts[i].results # EmptyDict
        /\ extracts[j].results # EmptyDict

\* the entry points that return a results structure, by the op they log
ExtractionEntryPoints ==
    {"extract_weights", "extract_logger_info", "extract_shadow_logger_info", "extract"}

\* C16: every extraction entry point that returns a results structure has
\* run the missing-fqn backfill before it returns, and before the rekeying
\* where there is one.
C16_BackfillBeforeReturn ==
    (lastCall.op \in ExtractionEntryPoints /\ err = "none")
    => \E i \in DOMAIN steps :
          /\ steps[i].ev = "maybe_add_missing_fqns"
          /\ \A j \in DOMAIN steps :
                steps[j].ev = "rekey_logger_info_on_node_name_of_model" => i < j

(***************************************************************************)
(* prepare_n_shadows_model.  Names are Python strings, kept as sequences   *)
(* of code points so that the string operations on them (formatting the    *)
(* indices into a name, startswith, split) are computed.                   *)
(***************************************************************************)
NumSubgraphs == 2        \* subgraphs in subgraphs_dedup
NumCandidates == 2       \* len(qconfig_mappings)

StrShadow == <<115, 104, 97, 100, 111, 119>>
StrShadowWrapper == StrShadow \o <<95, 119, 114, 97, 112, 112, 101, 114>>
StrSubgraph == <<115, 117, 98, 103, 114, 97, 112, 104>>
StrModel == <<109, 111, 100, 101, 108>>
StrNodeOutput == <<110, 111, 100, 101, 95, 111, 117, 116, 112, 117, 116>>

\* f"{prefix}_{subgraph_idx}_{subgraph_candidate_idx}"
IndexedName(prefix, subgraph_idx, subgraph_candidate_idx) ==
    prefix \o <<95>> \o FormatInt(subgraph_idx) \o <<95>> \o FormatInt(subgraph_candidate_idx)

\* _get_attr_name and _get_attr_wrapper_name
GetAttrName(subgraph_idx, subgraph_candidate_idx) ==
    IndexedName(StrShadow, subgraph_idx, subgraph_candidate_idx)
GetAttrWrapperName(subgraph_idx, subgraph_candidate_idx) ==
    IndexedName(StrShadowWrapper, subgraph_idx, subgraph_candidate_idx)

\* the model_name of the logger of one candidate of one subgraph
SubgraphModelName(subgraph_idx, subgraph_candidate_idx) ==
    IndexedName(StrSubgraph, subgraph_idx, subgraph_candidate_idx)

\* an argument of a node: a Node, a constant, or a list/tuple of those
NodeArg(name) == [kind |-> "node", name |-> name, items |-> <<>>]
ConstArg == [kind |-> "const", name |-> <<>>, items |-> <<>>]
ListArg(items) == [kind |-> "list", name |-> <<>>, items |-> items]

GraphNode(name, op, args, kwargs) ==
    [name |-> name, op |-> op, args |-> args, kwargs |-> kwargs]

\* the names of the nodes around the s-th subgraph: four upstream nodes,
\* the first and the last node of the subgraph, and the consumer of the last
UpX(s) == <<120>> \o FormatInt(s)
UpY(s) == <<121>> \o FormatInt(s)
UpZ(s) == <<122>> \o FormatInt(s)
UpW(s) == <<119>> \o FormatInt(s)
FirstName(s) == <<102>> \o FormatInt(s)
LastName(s) == <<108>> \o FormatInt(s)
ConsumerName(s) == <<99>> \o FormatInt(s)

\* the normalized 0th input of the first node: a Node, a list or a tuple of
\* Nodes, and which of them have a traced_result
PrevNode(shape, traced) == [shape |-> shape, traced |-> traced]

\* one entry of subgraphs_dedup together with what the builder reads from
\* its first node
SubgraphKinds ==
    {"plain", "untraced", "cat", "cat_untraced", "tuple_untraced", "non_node"}

Subgraph(kind, s) ==
    [ kind |-> kind,
      all_nodes |-> kind # "non_node",
      first_name |-> FirstName(s),
      last_name |-> IF kind = "cat" THEN LastName(s) ELSE FirstName(s),
      prev |-> CASE kind = "untraced" -> PrevNode("node", <<FALSE>>)
                 [] kind = "cat" -> PrevNode("list", <<TRUE, TRUE>>)
                 [] kind = "cat_untraced" -> PrevNode("list", <<TRUE, FALSE>>)
                 [] kind = "tuple_untraced" -> PrevNode("tuple", <<TRUE, FALSE>>)
                 [] OTHER -> PrevNode("node", <<TRUE>>),
      args |-> CASE kind = "cat" ->
                      <<ListArg(<<NodeArg(UpX(s)), NodeArg(UpY(s))>>), ConstArg,
                        ListArg(<<ConstArg, NodeArg(UpW(s))>>)>>
                 [] kind \in {"cat_untraced", "tuple_untraced"} ->
                      <<ListArg(<<NodeArg(UpX(s)), NodeArg(UpY(s))>>), ConstArg>>
                 [] OTHER -> <<NodeArg(UpX(s))>>,
      kwargs |-> IF kind = "cat"
                 THEN << [k |-> "other", v |-> NodeArg(UpY(s))],
                         [k |-> "sizes", v |-> ListArg(<<NodeArg(UpZ(s)), ConstArg>>)],
                         [k |-> "alpha", v |-> ConstArg] >>
                 ELSE <<>> ]

\* the nodes of the traced graph around one subgraph, in graph order
SubgraphNodes(sg, s) ==
    << GraphNode(UpX(s), "placeholder", <<>>, <<>>),
       GraphNode(UpY(s), "placeholder", <<>>, <<>>),
       GraphNode(UpZ(s), "placeholder", <<>>, <<>>),
       GraphNode(UpW(s), "placeholder", <<>>, <<>>),
       GraphNode(sg.first_name, "call_module", sg.args, sg.kwargs) >>
    \o (IF sg.last_name # sg.first_name
        THEN <<GraphNode(sg.last_name, "call_module", <<NodeArg(sg.first_name)>>, <<>>)>>
        ELSE <<>>)
    \o << GraphNode(ConsumerName(s), "call_function", <<NodeArg(sg.last_name)>>, <<>>) >>

RECURSIVE TracedGraph(_, _)
TracedGraph(subgraphs, s) ==
    IF s > Len(subgraphs) THEN <<>>
    ELSE SubgraphNodes(subgraphs[s], s - 1) \o TracedGraph(subgraphs, s + 1)

\* node_name_to_qconfig of one candidate: str(qconfig) for the first node
\* of the s-th subgraph, or NoQConfig where the mapping gives None
NoQConfig == "<None>"
QConfigMappingKinds == {"global", "none", "not_first"}
NodeNameToQConfig(mapping_kind, s) ==
    IF mapping_kind = "none" \/ (mapping_kind = "not_first" /\ s = 0)
    THEN NoQConfig
    ELSE "QConfig"

\* the logger _get_logger_for_subgraph builds
GetLoggerForSubgraph(first_name, last_name, subgraph_idx, subgraph_candidate_idx, qconfig_str, enabled) ==
    [NewLogger(StrModel, SubgraphModelName(subgraph_idx, subgraph_candidate_idx),
               StrNodeOutput, 0, 0)
        EXCEPT !.ref_node_name = first_name,
               !.prev_node_name = last_name,
               !.qconfig_str = qconfig_str,
               !.enabled = enabled]

\* a wrapper module: the copy of one subgraph prepared for one candidate
Wrapper(name, subgraph_idx, subgraph_candidate_idx, qconfig) ==
    [ name |-> name, subgraph_idx |-> subgraph_idx,
      subgraph_candidate_idx |-> subgraph_candidate_idx,
      qconfig |-> qconfig, converted |-> FALSE ]

\* nodes with new_node inserted right after, or right before, the node
\* called name
InsertAfter(nodes, name, new_node) ==
    LET i == CHOOSE k \in DOMAIN nodes : nodes[k].name = name
    IN SubSeq(nodes, 1, i) \o <<new_node>> \o SubSeq(nodes, i + 1, Len(nodes))
InsertBefore(nodes, name, new_node) ==
    LET i == CHOOSE k \in DOMAIN nodes : nodes[k].name = name
    IN SubSeq(nodes, 1, i - 1) \o <<new_node>> \o SubSeq(nodes, i, Len(nodes))

\* the Node elements of a list or tuple argument, in order
NodeItems(items) == SelectSeq(items, LAMBDA a : a.kind = "node")

\* new_args after the loop over first_node.args, from the i-th argument on
RECURSIVE NewArgsFromArgs(_, _)
NewArgsFromArgs(args, i) ==
    IF i > Len(args) THEN <<>>
    ELSE (IF args[i].kind = "node" THEN <<args[i]>>
          ELSE IF /\ args[i].kind = "list"
                  /\ Len(args[i].items) > 0
                  /\ args[i].items[1].kind = "node"
               THEN NodeItems(args[i].items)
               ELSE <<>>)
         \o NewArgsFromArgs(args, i + 1)

\* what the loop over first_node.kwargs appends to new_args
RECURSIVE NewArgsFromKwargs(_, _)
NewArgsFromKwargs(kwargs, i) ==
    IF i > Len(kwargs) THEN <<>>
    ELSE (IF kwargs[i].v.kind = "list" THEN kwargs[i].v.items ELSE <<>>)
         \o NewArgsFromKwargs(kwargs, i + 1)

\* new_kwargs: the keyword arguments that are Nodes
NewKwargs(kwargs) == SelectSeq(kwargs, LAMBDA kw : kw.v.kind = "node")

\* the state of the construction: the attributes of mt (name to the kind
\* of value), the graph, the loggers in registration order, the wrappers,
\* the log of what was done, and the exception raised
Construction(attrs, nodes, mods, wrappers, log, error) ==
    [ attrs |-> attrs, nodes |-> nodes, mods |-> mods, wrappers |-> wrappers,
      log |-> log, err |-> error ]

AddFloatingPointLoggerMutOverwrites(st, sg, subgraph_idx, enabled) ==
    LET attr_name == GetAttrName(subgraph_idx, 0)
        logger_mod_orig == GetLoggerForSubgraph(sg.first_name, sg.last_name,
                                                subgraph_idx, 0, "", enabled)
    IN [st EXCEPT
               !.attrs = DictSet(@, attr_name, "logger"),
               !.mods = Append(@, logger_mod_orig),
               !.nodes = InsertAfter(@, sg.last_name,
                             GraphNode(attr_name, "call_module",
                                       <<NodeArg(sg.last_name)>>, <<>>)),
               !.log = @ \o <<StepOn("setattr", attr_name),
                              StepOn("call_module", attr_name)>>]

\* candidate 0: the logger after the last node of the untouched subgraph
AddFloatingPointLogger(st, sg, subgraph_idx, enabled) ==
    LET attr_name == GetAttrName(subgraph_idx, 0)
        logger_mod_orig == GetLoggerForSubgraph(sg.first_name, sg.last_name,
                                                subgraph_idx, 0, "", enabled)
    IN IF DictHas(st.attrs, attr_name)
       THEN [st EXCEPT !.log = Append(@, StepOn("assert", attr_name)),
                       !.err = "AssertionError"]
       ELSE [st EXCEPT
               !.attrs = DictSet(@, attr_name, "logger"),
               !.mods = Append(@, logger_mod_orig),
               !.nodes = InsertAfter(@, sg.last_name,
                             GraphNode(attr_name, "call_module",
                                       <<NodeArg(sg.last_name)>>, <<>>)),
               !.log = @ \o <<StepOn("setattr", attr_name),
                              StepOn("call_module", attr_name)>>]

AddCandidateWrapperMutKeepsNull(st, sg, subgraph_idx, subgraph_candidate_idx, qconfig, enabled, consumed) ==
    LET attr_name == GetAttrWrapperName(subgraph_idx, subgraph_candidate_idx)
        logger == GetLoggerForSubgraph(sg.first_name, sg.last_name, subgraph_idx,
                                       subgraph_candidate_idx, qconfig, enabled)
        new_args == NewArgsFromArgs(sg.args, 1) \o NewArgsFromKwargs(sg.kwargs, 1)
    IN IF consumed /\ sg.prev.shape = "tuple" /\ (\E i \in DOMAIN sg.prev.traced : ~sg.prev.traced[i])
       THEN [st EXCEPT !.log = Append(@, StepOn("prepare_fx", attr_name)),
                       !.err = "AttributeError"]
       ELSE IF DictHas(st.attrs, attr_name)
       THEN [st EXCEPT !.log = @ \o <<StepOn("prepare_fx", attr_name),
                                      StepOn("assert", attr_name)>>,
                       !.err = "AssertionError"]
       ELSE [st EXCEPT
               !.attrs = DictSet(@, attr_name, "wrapper"),
               !.mods = Append(@, logger),
               !.wrappers = Append(@, Wrapper(attr_name, subgraph_idx,
                                              subgraph_candidate_idx, qconfig)),
               !.nodes = InsertBefore(@, sg.first_name,
                             GraphNode(attr_name, "call_module", new_args,
                                       NewKwargs(sg.kwargs))),
               !.log = @ \o <<StepOn("prepare_fx", attr_name),
                              StepOn("setattr", attr_name),
                              StepOn("call_module", attr_name)>>]

AddCandidateWrapperMutFeedsFromProbe(st, sg, subgraph_idx, subgraph_candidate_idx, qconfig, enabled, consumed) ==
    LET attr_name == GetAttrWrapperName(subgraph_idx, subgraph_candidate_idx)
        logger == GetLoggerForSubgraph(sg.first_name, sg.last_name, subgraph_idx,
                                       subgraph_candidate_idx, qconfig, enabled)
        new_args == <<NodeArg(GetAttrName(subgraph_idx, 0))>>
    IN IF qconfig = NoQConfig THEN st
       ELSE IF consumed /\ sg.prev.shape = "tuple" /\ (\E i \in DOMAIN sg.prev.traced : ~sg.prev.traced[i])
       THEN [st EXCEPT !.log = Append(@, StepOn("prepare_fx", attr_name)),
                       !.err = "AttributeError"]
       ELSE IF DictHas(st.attrs, attr_name)
       THEN [st EXCEPT !.log = @ \o <<StepOn("prepare_fx", attr_name),
                                      StepOn("assert", attr_name)>>,
                       !.err = "AssertionError"]
       ELSE [st EXCEPT
               !.attrs = DictSet(@, attr_name, "wrapper"),
               !.mods = Append(@, logger),
               !.wrappers = Append(@, Wrapper(attr_name, subgraph_idx,
                                              subgraph_candidate_idx, qconfig)),
               !.nodes = InsertBefore(@, sg.first_name,
                             GraphNode(attr_name, "call_module", new_args,
                                       NewKwargs(sg.kwargs))),
               !.log = @ \o <<StepOn("prepare_fx", attr_name),
                              StepOn("setattr", attr_name),
                              StepOn("call_module", attr_name)>>]

\* candidate > 0: the prepared copy of the subgraph, called before the
\* first node; consumed says whether prepare_fx iterates example_inputs
AddCandidateWrapper(st, sg, subgraph_idx, subgraph_candidate_idx, qconfig, enabled, consumed) ==
    LET attr_name == GetAttrWrapperName(subgraph_idx, subgraph_candidate_idx)
        logger == GetLoggerForSubgraph(sg.first_name, sg.last_name, subgraph_idx,
                                       subgraph_candidate_idx, qconfig, enabled)
        new_args == NewArgsFromArgs(sg.args, 1) \o NewArgsFromKwargs(sg.kwargs, 1)
    IN IF qconfig = NoQConfig THEN st
       ELSE IF consumed /\ sg.prev.shape = "tuple" /\ (\E i \in DOMAIN sg.prev.traced : ~sg.prev.traced[i])
       THEN [st EXCEPT !.log = Append(@, StepOn("prepare_fx", attr_name)),
                       !.err = "AttributeError"]
       ELSE IF DictHas(st.attrs, attr_name)
       THEN [st EXCEPT !.log = @ \o <<StepOn("prepare_fx", attr_name),
                                      StepOn("assert", attr_name)>>,
                       !.err = "AssertionError"]
       ELSE [st EXCEPT
               !.attrs = DictSet(@, attr_name, "wrapper"),
               !.mods = Append(@, logger),
               !.wrappers = Append(@, Wrapper(attr_name, subgraph_idx,
                                              subgraph_candidate_idx, qconfig)),
               !.nodes = InsertBefore(@, sg.first_name,
                             GraphNode(attr_name, "call_module", new_args,
                                       NewKwargs(sg.kwargs))),
               !.log = @ \o <<StepOn("prepare_fx", attr_name),
                              StepOn("setattr", attr_name),
                              StepOn("call_module", attr_name)>>]

\* the loop over range(len(qconfig_mappings) + 1), from candidate c on
RECURSIVE PrepareCandidatesFrom(_, _, _, _, _, _, _)
PrepareCandidatesFrom(st, sg, subgraph_idx, c, qconfig_mappings, enabled, consumed) ==
    IF c > Len(qconfig_mappings) \/ st.err # "none" THEN st
    ELSE PrepareCandidatesFrom(
             IF c = 0 THEN AddFloatingPointLogger(st, sg, subgraph_idx, enabled[1])
             ELSE AddCandidateWrapper(st, sg, subgraph_idx, c,
                                      NodeNameToQConfig(qconfig_mappings[c], subgraph_idx),
                                      enabled[2], consumed),
             sg, subgraph_idx, c + 1, qconfig_mappings, enabled, consumed)

PrepareSubgraphMutSkipsBaseline(st, sg, subgraph_idx, qconfig_mappings, enabled, consumed) ==
    IF ~sg.all_nodes THEN st
    ELSE IF sg.prev.shape = "list" /\ (\E i \in DOMAIN sg.prev.traced : ~sg.prev.traced[i])
    THEN [st EXCEPT !.log = Append(@, StepOn("traced_result", sg.first_name)),
                    !.err = "AttributeError"]
    ELSE IF sg.prev.shape = "node" /\ ~sg.prev.traced[1]
    THEN [st EXCEPT !.log = Append(@, StepOn("print", sg.first_name))]
    ELSE PrepareCandidatesFrom(st, sg, subgraph_idx, 1, qconfig_mappings, enabled, consumed)

\* the body of the loop over subgraphs_dedup for one subgraph
PrepareSubgraph(st, sg, subgraph_idx, qconfig_mappings, enabled, consumed) ==
    IF ~sg.all_nodes THEN st
    ELSE IF sg.prev.shape = "list" /\ (\E i \in DOMAIN sg.prev.traced : ~sg.prev.traced[i])
    THEN [st EXCEPT !.log = Append(@, StepOn("traced_result", sg.first_name)),
                    !.err = "AttributeError"]
    ELSE IF sg.prev.shape = "node" /\ ~sg.prev.traced[1]
    THEN [st EXCEPT !.log = Append(@, StepOn("print", sg.first_name))]
    ELSE PrepareCandidatesFrom(st, sg, subgraph_idx, 0, qconfig_mappings, enabled, consumed)

\* the loop over enumerate(subgraphs_dedup.items()), from the s-th entry on
RECURSIVE PrepareSubgraphsFrom(_, _, _, _, _, _)
PrepareSubgraphsFrom(st, subgraphs, s, qconfig_mappings, enabled, consumed) ==
    IF s > Len(subgraphs) \/ st.err # "none" THEN st
    ELSE PrepareSubgraphsFrom(
             PrepareSubgraph(st, subgraphs[s], s - 1, qconfig_mappings, enabled, consumed),
             subgraphs, s + 1, qconfig_mappings, enabled, consumed)

PrepareNShadowsModelMutRecompilesIfInserted ==
    /\ lastCall = NoCall
    /\ \E consumed \in BOOLEAN :
       \E out \in { PrepareSubgraphsFrom(
                        Construction(mt.attrs, mt.nodes, <<>>, <<>>, <<>>, "none"),
                        sweep.subgraphs, 1, sweep.qconfig_mappings, sweep.enabled,
                        consumed) } :
          /\ mt' = [ prepared |-> out.err = "none",
                     converted |-> FALSE,
                     attrs |-> out.attrs,
                     nodes |-> out.nodes,
                     wrappers |-> out.wrappers,
                     recompiles |-> IF out.err = "none" THEN 1 ELSE 0 ]
          /\ loggers' = out.mods
          /\ numTensorCalls' = [l \in DOMAIN out.mods |-> 0]
          /\ steps' = IF out.err = "none" /\ out.mods # <<>>
                      THEN Append(out.log, Step("recompile"))
                      ELSE out.log
          /\ err' = out.err
    /\ ret' = NoValue
    /\ lastCall' = [NoCall EXCEPT !.op = "prepare"]
    /\ UNCHANGED <<results, numCalls, extracts, sweep, grouped, matchVars>>

\* prepare_n_shadows_model(model, example_inputs, qconfig_mappings,
\* backend_config_dict), from the loop over the subgraphs to the return
PrepareNShadowsModel ==
    /\ lastCall = NoCall
    /\ \E consumed \in BOOLEAN :
       \E out \in { PrepareSubgraphsFrom(
                        Construction(mt.attrs, mt.nodes, <<>>, <<>>, <<>>, "none"),
                        sweep.subgraphs, 1, sweep.qconfig_mappings, sweep.enabled,
                        consumed) } :
          /\ mt' = [ prepared |-> out.err = "none",
                     converted |-> FALSE,
                     attrs |-> out.attrs,
                     nodes |-> out.nodes,
                     wrappers |-> out.wrappers,
                     recompiles |-> IF out.err = "none" THEN 1 ELSE 0 ]
          /\ loggers' = out.mods
          /\ numTensorCalls' = [l \in DOMAIN out.mods |-> 0]
          /\ steps' = IF out.err = "none" THEN Append(out.log, Step("recompile"))
                      ELSE out.log
          /\ err' = out.err
    /\ ret' = NoValue
    /\ lastCall' = [NoCall EXCEPT !.op = "prepare"]
    /\ UNCHANGED <<results, numCalls, extracts, sweep, grouped, matchVars>>

\* attributes the traced model may have before the construction
PreexistingAttrs ==
    { EmptyDict,
      DictSet(EmptyDict, GetAttrName(1, 0), "user"),
      DictSet(EmptyDict, GetAttrWrapperName(0, 1), "user") }

\* the arguments of the call and the traced model, for given kinds of
\* subgraphs and of qconfig mappings; enabled is the flag the loggers of
\* candidate 0 and the loggers inside the wrappers have once the caller has
\* set the returned model up
SweepInit(kinds, mappings, attrs, enabled) ==
    /\ sweep = [ subgraphs |-> [s \in DOMAIN kinds |-> Subgraph(kinds[s], s - 1)],
                 qconfig_mappings |-> mappings,
                 attrs |-> attrs,
                 enabled |-> enabled ]
    /\ mt = [NoModel EXCEPT !.attrs = attrs,
                            !.nodes = TracedGraph(sweep.subgraphs, 1)]
    /\ grouped = EmptyDict
    /\ loggers = <<>>
    /\ results = EmptyDict
    /\ ret = NoValue
    /\ err = "none"
    /\ lastCall = NoCall
    /\ numCalls = 0
    /\ numTensorCalls = <<>>
    /\ IdleEntry /\ IdleMatch

InitSweep ==
    \E kinds \in [1..NumSubgraphs -> SubgraphKinds],
       mappings \in [1..NumCandidates -> QConfigMappingKinds],
       attrs \in PreexistingAttrs :
        SweepInit(kinds, mappings, attrs, <<FALSE, FALSE>>)

NextSweep == PrepareNShadowsModel

SpecSweep == InitSweep /\ [][NextSweep]_vars

(***************************************************************************)
(* Claims about prepare_n_shadows_model                                    *)
(***************************************************************************)
\* the construction returned normally
Prepared == lastCall.op = "prepare" /\ err = "none"

\* a subgraph the builder instruments: every element is a Node, and its
\* input is not a single node without example value
Instrumented(sg) ==
    sg.all_nodes /\ ~(sg.prev.shape = "node" /\ ~sg.prev.traced[1])

\* the number of nodes of the sweep graph called name
NodesNamed(name) == Cardinality({k \in DOMAIN mt.nodes : mt.nodes[k].name = name})

\* the candidates whose qconfig for the first node of a subgraph is not None
NonNullCandidates(subgraph_idx) ==
    { c \in DOMAIN sweep.qconfig_mappings :
        NodeNameToQConfig(sweep.qconfig_mappings[c], subgraph_idx) # NoQConfig }

\* the nodes the builder added to the traced graph
InsertedNodes ==
    { k \in DOMAIN mt.nodes :
        \A o \in DOMAIN TracedGraph(sweep.subgraphs, 1) :
            TracedGraph(sweep.subgraphs, 1)[o].name # mt.nodes[k].name }

\* the branches expected for the s-th subgraph and the ones after it
RECURSIVE BranchesFrom(_)
BranchesFrom(s) ==
    IF s > Len(sweep.subgraphs) THEN 0
    ELSE (IF Instrumented(sweep.subgraphs[s])
          THEN 1 + Cardinality(NonNullCandidates(s - 1)) ELSE 0)
         + BranchesFrom(s + 1)

\* C12: for every instrumented subgraph the sweep graph has exactly one
\* floating-point probe (candidate 0) and exactly one branch for each
\* candidate whose qconfig for the first node is not None, none for a
\* candidate whose qconfig is None, and no other inserted node.
C12_OneBranchPerNonNullCandidate ==
    Prepared =>
        /\ \A s \in DOMAIN sweep.subgraphs :
              Instrumented(sweep.subgraphs[s]) =>
                 /\ NodesNamed(GetAttrName(s - 1, 0)) = 1
                 /\ \A c \in DOMAIN sweep.qconfig_mappings :
                       /\ NodesNamed(GetAttrWrapperName(s - 1, c)) =
                             (IF c \in NonNullCandidates(s - 1) THEN 1 ELSE 0)
                       /\ (c \in NonNullCandidates(s - 1)) <=>
                             (\E w \in DOMAIN mt.wrappers :
                                 /\ mt.wrappers[w].subgraph_idx = s - 1
                                 /\ mt.wrappers[w].subgraph_candidate_idx = c)
        /\ Cardinality(InsertedNodes) = BranchesFrom(1)

\* one instrumented op and two candidates of which one resolves to None:
\* the graph has 2 inserted nodes
C12_Witness ==
    /\ Prepared
    /\ Cardinality({s \in DOMAIN sweep.subgraphs : Instrumented(sweep.subgraphs[s])}) = 1
    /\ \E s \in DOMAIN sweep.subgraphs :
          /\ Instrumented(sweep.subgraphs[s])
          /\ Cardinality(NonNullCandidates(s - 1)) = 1
          /\ Len(sweep.qconfig_mappings) >= 2
    /\ Cardinality(InsertedNodes) = 2

\* the indices for which the names are compared: the ones of the sweep and
\* two-digit ones
NameIndices == (0..NumSubgraphs) \cup {10, 11}

\* C13: the attribute name of a (subgraph index, candidate index) pair is a
\* function of the two indices, distinct pairs have distinct names, and an
\* attribute that exists before the construction is never overwritten: the
\* construction raises at the pair whose name exists, before any setattr
\* of that name.
C13_NamesFromIndicesNoOverwrite ==
    /\ Cardinality({GetAttrName(ij[1], ij[2]) : ij \in NameIndices \X NameIndices}
                    \cup
                    {GetAttrWrapperName(ij[1], ij[2]) : ij \in NameIndices \X NameIndices})
          = 2 * Cardinality(NameIndices \X NameIndices)
    /\ lastCall.op = "prepare" =>
          /\ \A a \in DOMAIN sweep.attrs :
                /\ DictHas(mt.attrs, sweep.attrs[a].k)
                /\ DictGet(mt.attrs, sweep.attrs[a].k) = sweep.attrs[a].v
          /\ \A k \in DOMAIN steps :
                steps[k].ev = "setattr" =>
                   /\ ~DictHas(sweep.attrs, steps[k].name)
                   /\ \A k2 \in DOMAIN steps :
                         (steps[k2].ev = "setattr" /\ steps[k2].name = steps[k].name)
                         => k2 = k
                   /\ \E sc \in (0..(NumSubgraphs - 1)) \X (0..NumCandidates) :
                         steps[k].name = (IF sc[2] = 0 THEN GetAttrName(sc[1], 0)
                                          ELSE GetAttrWrapperName(sc[1], sc[2]))
          /\ err = "none" =>
                \A s \in DOMAIN sweep.subgraphs :
                    Instrumented(sweep.subgraphs[s]) =>
                       /\ ~DictHas(sweep.attrs, GetAttrName(s - 1, 0))
                       /\ \A c \in NonNullCandidates(s - 1) :
                             ~DictHas(sweep.attrs, GetAttrWrapperName(s - 1, c))

\* the construction reached a pair whose name the model already had, after
\* it had attached other modules, and raised
C13_Witness ==
    /\ lastCall.op = "prepare"
    /\ err = "AssertionError"
    /\ \E k \in DOMAIN steps : steps[k].ev = "setattr"
    /\ \E a \in DOMAIN sweep.attrs :
          /\ steps[Len(steps)] = StepOn("assert", sweep.attrs[a].k)
          /\ DictGet(mt.attrs, sweep.attrs[a].k) = "user"

\* a subgraph of Nodes whose input (a node, or one node of a list or tuple)
\* has no traced_result
LacksExampleValue(sg) ==
    sg.all_nodes /\ \E i \in DOMAIN sg.prev.traced : ~sg.prev.traced[i]

\* C14: a subgraph whose input has no recorded example value, whether the
\* input is a single node or a list/tuple of nodes, is skipped with a
\* diagnostic and without raising: the lookup raises no AttributeError, and
\* in the returned graph the subgraph has no probe and no branch.
C14_MissingExampleValueSkipped ==
    lastCall.op = "prepare" =>
        \A s \in DOMAIN sweep.subgraphs :
            LacksExampleValue(sweep.subgraphs[s]) =>
               /\ err # "AttributeError"
               /\ err = "none" =>
                     /\ \E k \in DOMAIN steps :
                           steps[k] = StepOn("print", sweep.subgraphs[s].first_name)
                     /\ NodesNamed(GetAttrName(s - 1, 0)) = 0
                     /\ \A c \in DOMAIN sweep.qconfig_mappings :
                           NodesNamed(GetAttrWrapperName(s - 1, c)) = 0

(***************************************************************************)
(* Running, converting and reading out the sweep model                     *)
(***************************************************************************)
\* one forward pass of the sweep model: every logger, the ones inside the
\* wrappers included, is called once with the tensor at its node
RunSweepModel ==
    /\ mt.prepared
    /\ lastCall.op \in {"prepare", "run", "convert"}
    /\ numCalls < MaxPasses
    /\ loggers' = [l \in DOMAIN loggers |-> Forward(loggers[l], T2).self]
    /\ numCalls' = numCalls + 1
    /\ numTensorCalls' = [l \in DOMAIN loggers |->
                            numTensorCalls[l] + (IF loggers[l].enabled THEN 1 ELSE 0)]
    /\ ret' = T2
    /\ err' = "none"
    /\ lastCall' = [NoCall EXCEPT !.op = "run"]
    /\ steps' = <<Step("forward")>>
    /\ UNCHANGED <<results, extracts, sweepVars, matchVars>>

\* node.name.startswith(prefix)
StartsWith(name, prefix) ==
    Len(prefix) <= Len(name) /\ SubSeq(name, 1, Len(prefix)) = prefix

\* quantize_fx.convert_fx(orig_mod): the converted form of a wrapper
ConvertFx(orig_mod) == [orig_mod EXCEPT !.converted = TRUE]

\* the wrappers after the loop over model.graph.nodes, from the i-th node on
RECURSIVE ConvertWrappersFrom(_, _, _)
ConvertWrappersFrom(nodes, i, wrappers) ==
    IF i > Len(nodes) THEN wrappers
    ELSE ConvertWrappersFrom(nodes, i + 1,
             IF StartsWith(nodes[i].name, StrShadowWrapper)
             THEN [w \in DOMAIN wrappers |->
                     IF wrappers[w].name = nodes[i].name
                     THEN ConvertFx(wrappers[w]) ELSE wrappers[w]]
             ELSE wrappers)

ConvertNShadowsModelMutSkipsNested ==
    /\ mt.prepared /\ ~mt.converted
    /\ lastCall.op \in {"prepare", "run"}
    /\ mt' = [mt EXCEPT !.wrappers = ConvertWrappersFrom(mt.nodes, 1, @),
                        !.converted = TRUE]
    /\ loggers' = [l \in DOMAIN loggers |->
                     IF loggers[l].qconfig_str = ""
                     THEN [loggers[l] EXCEPT !.enabled = TRUE] ELSE loggers[l]]
    /\ ret' = NoValue
    /\ err' = "none"
    /\ lastCall' = [NoCall EXCEPT !.op = "convert"]
    /\ steps' = <<Step("convert_fx"), Step("enable")>>
    /\ UNCHANGED <<results, numCalls, numTensorCalls, extracts, sweep, grouped, matchVars>>

\* convert_n_shadows_model(model)
ConvertNShadowsModel ==
    /\ mt.prepared /\ ~mt.converted
    /\ lastCall.op \in {"prepare", "run"}
    /\ mt' = [mt EXCEPT !.wrappers = ConvertWrappersFrom(mt.nodes, 1, @),
                        !.converted = TRUE]
    /\ loggers' = [l \in DOMAIN loggers |-> [loggers[l] EXCEPT !.enabled = TRUE]]
    /\ ret' = NoValue
    /\ err' = "none"
    /\ lastCall' = [NoCall EXCEPT !.op = "convert"]
    /\ steps' = <<Step("convert_fx"), Step("enable")>>
    /\ UNCHANGED <<results, numCalls, numTensorCalls, extracts, sweep, grouped, matchVars>>

\* str.split(sep) for a one-character separator
RECURSIVE Split(_, _)
Split(str, sep) ==
    IF \A i \in DOMAIN str : str[i] # sep THEN <<str>>
    ELSE LET i == CHOOSE k \in DOMAIN str :
                     str[k] = sep /\ \A j \in 1..(k - 1) : str[j] # sep
         IN <<SubSeq(str, 1, i - 1)>> \o Split(SubSeq(str, i + 1, Len(str)), sep)

\* the loop of group_results_by_subgraph over
\* results['model']['node_output'].items(), from the i-th item on
RECURSIVE GroupFrom(_, _, _)
GroupFrom(items, i, acc) ==
    IF i > Len(items) THEN [grouped |-> acc, err |-> "none"]
    ELSE LET parts == Split(items[i].k, 95)
         IN IF Len(parts) # 3 THEN [grouped |-> acc, err |-> "ValueError"]
            ELSE IF Len(items[i].v) = 0 THEN [grouped |-> acc, err |-> "IndexError"]
            ELSE
              LET subgraph_name == parts[1] \o <<95>> \o parts[2]
                  subgraph_results ==
                      [ ref_node_name |-> items[i].v[1].ref_node_name,
                        values |-> items[i].v[1].values,
                        qconfig_str |-> items[i].v[1].qconfig_str ]
                  old == IF DictHas(acc, subgraph_name) THEN DictGet(acc, subgraph_name)
                         ELSE EmptyDict
              IN GroupFrom(items, i + 1,
                           DictSet(acc, subgraph_name,
                                   DictSet(old, parts[3], subgraph_results)))

\* group_results_by_subgraph(results), called on what the extraction returned
GroupResultsBySubgraph ==
    /\ lastCall.op = "extract"
    /\ err = "none"
    /\ \E out \in { IF DictHas(results, StrModel) /\ DictHas(DictGet(results, StrModel), StrNodeOutput)
                    THEN GroupFrom(DictGet(DictGet(results, StrModel), StrNodeOutput), 1, EmptyDict)
                    ELSE [grouped |-> EmptyDict, err |-> "KeyError"] } :
          /\ grouped' = IF out.err = "none" THEN out.grouped ELSE grouped
          /\ err' = out.err
    /\ ret' = NoValue
    /\ lastCall' = [NoCall EXCEPT !.op = "group"]
    /\ steps' = <<Step("group_results_by_subgraph")>>
    /\ UNCHANGED <<loggers, results, numCalls, numTensorCalls, extracts, sweep, mt, matchVars>>

\* the sweeps that are run: subgraphs that are instrumented or skipped
\* without raising, models without attributes of the builder's names
RunSubgraphKinds == {"plain", "untraced", "cat"}
RunQConfigMappingKinds == {"global", "not_first"}

InitSweepRun ==
    \E kinds \in [1..NumSubgraphs -> RunSubgraphKinds],
       mappings \in [1..NumCandidates -> RunQConfigMappingKinds],
       enabled \in BOOLEAN \X BOOLEAN :
        SweepInit(kinds, mappings, EmptyDict, enabled)

NextSweepRun ==
    \/ PrepareNShadowsModel
    \/ RunSweepModel
    \/ ConvertNShadowsModel
    \/ ExtractResultsNShadowsModel
    \/ GroupResultsBySubgraph

SpecSweepRun == InitSweepRun /\ [][NextSweepRun]_vars

(***************************************************************************)
(* Claims about the converted sweep model and its results                  *)
(***************************************************************************)
\* C15: when convert_n_shadows_model has returned, every OutputLogger of
\* the model, the ones inside the wrappers included, is enabled whatever
\* its flag was before, every wrapper is in its converted form, and the
\* call has changed no logger's captured values.
C15_AllEnabledAndConverted ==
    lastCall.op = "convert" =>
        /\ \A l \in DOMAIN loggers : loggers[l].enabled
        /\ \A w \in DOMAIN mt.wrappers : mt.wrappers[w].converted

C15_Step ==
    lastCall'.op = "convert" =>
        /\ DOMAIN loggers' = DOMAIN loggers
        /\ \A l \in DOMAIN loggers :
              /\ loggers'[l].stats = loggers[l].stats
              /\ loggers'[l].stats_rnn = loggers[l].stats_rnn

C15_ConvertEnablesLoggers == []C15_AllEnabledAndConverted /\ [][C15_Step]_vars

\* after convert: a wrapper was converted, a logger inside a wrapper that
\* had been disabled is enabled, and a logger holds a value it captured
\* before the call
C15_Witness ==
    /\ lastCall.op = "convert"
    /\ mt.wrappers # <<>>
    /\ ~sweep.enabled[2]
    /\ \E l \in DOMAIN loggers : loggers[l].qconfig_str # "" /\ loggers[l].enabled
    /\ \E l \in DOMAIN loggers : loggers[l].stats # <<>>

\* C20: in a sweep model every subgraph index that has a candidate branch
\* of index above 0 also has the candidate-0 probe and its logger, and
\* after extraction and group_results_by_subgraph every subgraph of the
\* grouped results has the key '0', so subgraph_results['0'] succeeds.
C20_BaselineExists ==
    /\ mt.prepared =>
          \A w \in DOMAIN mt.wrappers :
              /\ NodesNamed(GetAttrName(mt.wrappers[w].subgraph_idx, 0)) = 1
              /\ \E l \in DOMAIN loggers :
                    loggers[l].model_name = SubgraphModelName(mt.wrappers[w].subgraph_idx, 0)
    /\ (lastCall.op = "group" /\ err = "none") =>
          /\ \A g \in DOMAIN grouped : DictHas(grouped[g].v, <<48>>)
          /\ \A w \in DOMAIN mt.wrappers :
                DictHas(grouped, StrSubgraph \o <<95>> \o FormatInt(mt.wrappers[w].subgraph_idx))

\* grouped results of a sweep with a subgraph that has the baseline and a
\* quantized candidate
C20_Witness ==
    /\ lastCall.op = "group" /\ err = "none"
    /\ mt.wrappers # <<>>
    /\ \E g \in DOMAIN grouped :
          /\ DictHas(grouped[g].v, <<48>>)
          /\ DictHas(grouped[g].v, <<49>>)
          /\ DictGet(grouped[g].v, <<48>>).values # <<>>

\* the names of the Nodes among a sequence of arguments
NodeNames(args) == {args[i].name : i \in {k \in DOMAIN args : args[k].kind = "node"}}

\* the nodes that feed the first node of a subgraph: its Node arguments
\* and the Nodes inside its list/tuple arguments, positional and keyword
UpstreamNodes(sg) ==
    NodeNames(sg.args)
    \cup UNION {NodeNames(sg.args[i].items) : i \in DOMAIN sg.args}
    \cup NodeNames([i \in DOMAIN sg.kwargs |-> sg.kwargs[i].v])
    \cup UNION {NodeNames(sg.kwargs[i].v.items) : i \in DOMAIN sg.kwargs}

\* the Node positional arguments in order, every list/tuple argument
\* replaced by its Node elements
RECURSIVE FlattenedNodeArgs(_, _)
FlattenedNodeArgs(args, i) ==
    IF i > Len(args) THEN <<>>
    ELSE (IF args[i].kind = "node" THEN <<args[i]>>
          ELSE NodeItems(args[i].items))
         \o FlattenedNodeArgs(args, i + 1)

\* the same, but a list/tuple argument counts only if it begins with a Node
RECURSIVE LeadingNodeArgs(_, _)
LeadingNodeArgs(args, i) ==
    IF i > Len(args) THEN <<>>
    ELSE (IF args[i].kind = "node" THEN <<args[i]>>
          ELSE IF args[i].items # <<>> /\ args[i].items[1].kind = "node"
               THEN NodeItems(args[i].items)
               ELSE <<>>)
         \o LeadingNodeArgs(args, i + 1)

\* the node of the sweep graph called name
NodeNamed(name) == mt.nodes[CHOOSE k \in DOMAIN mt.nodes : mt.nodes[k].name = name]

\* every Node a branch is called with feeds the first node of its subgraph,
\* the candidate-0 probe reads the last node, and the nodes of the traced
\* graph, the consumers of the last node among them, have the arguments
\* they had
BranchesIsolated ==
    /\ \A w \in DOMAIN mt.wrappers :
          LET sg == sweep.subgraphs[mt.wrappers[w].subgraph_idx + 1]
              call == NodeNamed(mt.wrappers[w].name)
          IN NodeNames(call.args) \cup NodeNames([i \in DOMAIN call.kwargs |-> call.kwargs[i].v])
                \subseteq UpstreamNodes(sg)
    /\ \A s \in DOMAIN sweep.subgraphs :
          Instrumented(sweep.subgraphs[s]) =>
              NodeNamed(GetAttrName(s - 1, 0)).args = <<NodeArg(sweep.subgraphs[s].last_name)>>
    /\ \A o \in DOMAIN TracedGraph(sweep.subgraphs, 1) :
          \E k \in DOMAIN mt.nodes : mt.nodes[k] = TracedGraph(sweep.subgraphs, 1)[o]

MaxGraphLen == 2         \* subgraphs per graph

\* a node of a graph, and a subgraph: a chain from start_node to end_node
\* whose base_op_node decides what it can be matched with
Node(model_name, op, pos) == [model |-> model_name, op |-> op, pos |-> pos]
NSSubgraph(model_name, op, pos) ==
    [ base_op_type |-> op,
      start_node |-> Node(model_name, op, pos),
      base_op_node |-> Node(model_name, op, pos),
      end_node |-> IF op \in {"linear", "qlinear"} THEN Node(model_name, "relu", pos)
                   ELSE Node(model_name, op, pos) ]

OpTypesA == {"linear", "conv", "dropout"}
OpTypesB == {"qlinear", "qconv", "dropout"}

\* the entries a relatedness table may hold: sets of op types that are
\* considered equivalent
RelatedSets == { {"linear", "qlinear"}, {"conv", "qconv"}, {"linear", "qconv"} }

\* two op types are related: the same type, or both in one set of the table
Related(type_a, type_b, table) ==
    type_a = type_b \/ \E set \in table : type_a \in set /\ type_b \in set

\* the match name: the position of the match and the base op type
MatchName(k, base_op_type) == [idx |-> k, base_op |-> base_op_type]

RECURSIVE GetMatchingSubgraphPairsFrom(_, _, _, _, _, _, _)
GetMatchingSubgraphPairsFromMutNeedsKnownTypes(graph_a, i, graph_b, j, table, unmatchable, k) ==
    IF i > Len(graph_a) \/ j > Len(graph_b) THEN <<>>
    ELSE IF graph_a[i].base_op_type \in unmatchable
            \/ ~(\E set \in table : graph_a[i].base_op_type \in set)
    THEN GetMatchingSubgraphPairsFrom(graph_a, i + 1, graph_b, j, table, unmatchable, k)
    ELSE IF graph_b[j].base_op_type \in unmatchable
    THEN GetMatchingSubgraphPairsFrom(graph_a, i, graph_b, j + 1, table, unmatchable, k)
    ELSE IF Related(graph_a[i].base_op_type, graph_b[j].base_op_type, table)
    THEN << [ k |-> MatchName(k, graph_a[i].base_op_type),
              v |-> <<graph_a[i], graph_b[j]>> ] >>
         \o GetMatchingSubgraphPairsFrom(graph_a, i + 1, graph_b, j + 1, table,
                                         unmatchable, k + 1)
    ELSE GetMatchingSubgraphPairsFrom(graph_a, i + 1, graph_b, j + 1, table,
                                      unmatchable, k)

\* the linear scan over the two subgraph lists, from positions i and j on,
\* with k matches made so far
GetMatchingSubgraphPairsFrom(graph_a, i, graph_b, j, table, unmatchable, k) ==
    IF i > Len(graph_a) \/ j > Len(graph_b) THEN <<>>
    ELSE IF graph_a[i].base_op_type \in unmatchable
    THEN GetMatchingSubgraphPairsFrom(graph_a, i + 1, graph_b, j, table, unmatchable, k)
    ELSE IF graph_b[j].base_op_type \in unmatchable
    THEN GetMatchingSubgraphPairsFrom(graph_a, i, graph_b, j + 1, table, unmatchable, k)
    ELSE IF Related(graph_a[i].base_op_type, graph_b[j].base_op_type, table)
    THEN << [ k |-> MatchName(k, graph_a[i].base_op_type),
              v |-> <<graph_a[i], graph_b[j]>> ] >>
         \o GetMatchingSubgraphPairsFrom(graph_a, i + 1, graph_b, j + 1, table,
                                         unmatchable, k + 1)
    ELSE GetMatchingSubgraphPairsFrom(graph_a, i + 1, graph_b, j + 1, table,
                                      unmatchable, k)

\* get_matching_subgraph_pairs(gm_a, gm_b, base_name_to_sets_of_related_ops,
\* unmatchable_types_map)
GetMatchingSubgraphPairs(graph_a, graph_b, table, unmatchable) ==
    GetMatchingSubgraphPairsFrom(graph_a, 1, graph_b, 1, table, unmatchable, 0)

\* str of the type of a node's target
GetTargetTypeStr(node) == node.op

\* the four lists after the loop over matched_subgraph_pairs.items(), from
\* the i-th pair on
RECURSIVE InstrumentationLists(_, _, _, _)
InstrumentationLists(matched, i, should_log_inputs, acc) ==
    IF i > Len(matched) THEN acc
    ELSE LET match_name == matched[i].k
             subgraph_a == matched[i].v[1]
             subgraph_b == matched[i].v[2]
             ref_node_type_a == GetTargetTypeStr(subgraph_a.base_op_node)
             ref_node_type_b == GetTargetTypeStr(subgraph_b.base_op_node)
         IN InstrumentationLists(matched, i + 1, should_log_inputs,
                [ inputs_a |-> IF should_log_inputs
                               THEN Append(acc.inputs_a,
                                           <<subgraph_a.start_node, match_name, ref_node_type_a>>)
                               ELSE acc.inputs_a,
                  inputs_b |-> IF should_log_inputs
                               THEN Append(acc.inputs_b,
                                           <<subgraph_b.start_node, match_name, ref_node_type_b>>)
                               ELSE acc.inputs_b,
                  outputs_a |-> Append(acc.outputs_a,
                                       <<subgraph_a.end_node, match_name, ref_node_type_a>>),
                  outputs_b |-> Append(acc.outputs_b,
                                       <<subgraph_b.end_node, match_name, ref_node_type_b>>) ])

\* the dict node -> (ref_name, ref_node_type) that _add_loggers_one_model
\* builds from one list, from the i-th triple on
RECURSIVE NodeToRefName(_, _, _)
NodeToRefName(list, i, acc) ==
    IF i > Len(list) THEN acc
    ELSE NodeToRefName(list, i + 1,
                       DictSet(acc, list[i][1], <<list[i][2], list[i][3]>>))

\* the loggers add_loggers_to_model attaches for one dict of requests
LoggersFor(requested, model_name, results_type) ==
    [ i \in DOMAIN requested |->
        [NewLogger(requested[i].v[1], model_name, results_type, 0, 0)
            EXCEPT !.prev_node_name = requested[i].k,
                   !.ref_node_name = requested[i].k,
                   !.ref_node_target_type = requested[i].v[2],
                   !.prev_node_target_type = requested[i].k.op] ]

AddLoggersMutAlwaysLogsInputs(should_log_inputs) ==
    /\ lastCall = NoCall
    /\ \E matched \in { GetMatchingSubgraphPairs(match.graph_a, match.graph_b,
                                                 match.table, match.unmatchable) } :
       \E lists \in { InstrumentationLists(matched, 1, TRUE, NoRequests) } :
          /\ pairs' = matched
          /\ requests' = [ inputs_a |-> NodeToRefName(lists.inputs_a, 1, EmptyDict),
                           inputs_b |-> NodeToRefName(lists.inputs_b, 1, EmptyDict),
                           outputs_a |-> NodeToRefName(lists.outputs_a, 1, EmptyDict),
                           outputs_b |-> NodeToRefName(lists.outputs_b, 1, EmptyDict) ]
          /\ loggers' = LoggersFor(requests'.inputs_a, "a", "node_input")
                        \o LoggersFor(requests'.outputs_a, "a", "node_output")
                        \o LoggersFor(requests'.inputs_b, "b", "node_input")
                        \o LoggersFor(requests'.outputs_b, "b", "node_output")
          /\ numTensorCalls' = [l \in DOMAIN loggers' |-> 0]
    /\ steps' = <<Step("get_matching_subgraph_pairs"),
                  Step("_add_loggers_one_model"), Step("_add_loggers_one_model")>>
    /\ ret' = NoValue
    /\ err' = "none"
    /\ lastCall' = [NoCall EXCEPT !.op = IF should_log_inputs THEN "add_loggers_inputs"
                                         ELSE "add_loggers",
                                  !.m1 = "a", !.m2 = "b"]
    /\ UNCHANGED <<results, numCalls, extracts, sweepVars, match>>

\* _add_loggers_impl(name_a, gm_a, name_b, gm_b, OutputLogger,
\* should_log_inputs, base_name_to_sets_of_related_ops, unmatchable_types_map)
AddLoggers(should_log_inputs) ==
    /\ lastCall = NoCall
    /\ \E matched \in { GetMatchingSubgraphPairs(match.graph_a, match.graph_b,
                                                 match.table, match.unmatchable) } :
       \E lists \in { InstrumentationLists(matched, 1, should_log_inputs, NoRequests) } :
          /\ pairs' = matched
          /\ requests' = [ inputs_a |-> NodeToRefName(lists.inputs_a, 1, EmptyDict),
                           inputs_b |-> NodeToRefName(lists.inputs_b, 1, EmptyDict),
                           outputs_a |-> NodeToRefName(lists.outputs_a, 1, EmptyDict),
                           outputs_b |-> NodeToRefName(lists.outputs_b, 1, EmptyDict) ]
          /\ loggers' = LoggersFor(requests'.inputs_a, "a", "node_input")
                        \o LoggersFor(requests'.outputs_a, "a", "node_output")
                        \o LoggersFor(requests'.inputs_b, "b", "node_input")
                        \o LoggersFor(requests'.outputs_b, "b", "node_output")
          /\ numTensorCalls' = [l \in DOMAIN loggers' |-> 0]
    /\ steps' = <<Step("get_matching_subgraph_pairs"),
                  Step("_add_loggers_one_model"), Step("_add_loggers_one_model")>>
    /\ ret' = NoValue
    /\ err' = "none"
    /\ lastCall' = [NoCall EXCEPT !.op = IF should_log_inputs THEN "add_loggers_inputs"
                                         ELSE "add_loggers",
                                  !.m1 = "a", !.m2 = "b"]
    /\ UNCHANGED <<results, numCalls, extracts, sweepVars, match>>

\* the graphs of at most MaxGraphLen subgraphs over the op types of a model
Graphs(model_name, types) ==
    UNION { { [pos \in 1..n |-> NSSubgraph(model_name, ops[pos], pos)] :
                ops \in [1..n -> types] } : n \in 1..MaxGraphLen }

InitMatch ==
    /\ match \in [ graph_a : Graphs("a", OpTypesA),
                   graph_b : Graphs("b", OpTypesB),
                   table : SUBSET RelatedSets,
                   unmatchable : {{}, {"dropout"}} ]
    /\ pairs = <<>>
    /\ requests = NoRequests
    /\ loggers = <<>>
    /\ results = EmptyDict
    /\ ret = NoValue
    /\ err = "none"
    /\ lastCall = NoCall
    /\ numCalls = 0
    /\ numTensorCalls = <<>>
    /\ IdleEntry /\ IdleSweep

NextMatch == \E should_log_inputs \in BOOLEAN : AddLoggers(should_log_inputs)

SpecMatch == InitMatch /\ [][NextMatch]_vars

(***************************************************************************)
(* Claims about add_loggers and the matching                               *)
(***************************************************************************)
\* add_loggers has returned
Instrumentation == lastCall.op \in {"add_loggers", "add_loggers_inputs"}

\* C17: for every matched pair an output probe is requested at the end_node
\* of the subgraph of each model under the shared match name; input probes
\* (at start_node) are requested only when input logging is enabled, and
\* with input logging disabled there is no input instrumentation point in
\* either model and every logger captures the output of an end node.
C17_OutputAlwaysInputIfEnabled ==
    Instrumentation =>
        /\ \A i \in DOMAIN pairs :
              /\ DictHas(requests.outputs_a, pairs[i].v[1].end_node)
              /\ DictGet(requests.outputs_a, pairs[i].v[1].end_node)[1] = pairs[i].k
              /\ DictHas(requests.outputs_b, pairs[i].v[2].end_node)
              /\ DictGet(requests.outputs_b, pairs[i].v[2].end_node)[1] = pairs[i].k
              /\ lastCall.op = "add_loggers_inputs" =>
                    /\ DictHas(requests.inputs_a, pairs[i].v[1].start_node)
                    /\ DictGet(requests.inputs_a, pairs[i].v[1].start_node)[1] = pairs[i].k
                    /\ DictHas(requests.inputs_b, pairs[i].v[2].start_node)
                    /\ DictGet(requests.inputs_b, pairs[i].v[2].start_node)[1] = pairs[i].k
        /\ Len(requests.outputs_a) = Len(pairs)
        /\ Len(requests.outputs_b) = Len(pairs)
        /\ lastCall.op = "add_loggers" =>
              /\ requests.inputs_a = EmptyDict
              /\ requests.inputs_b = EmptyDict
              /\ \A l \in DOMAIN loggers :
                    /\ loggers[l].results_type = "node_output"
                    /\ \E i \in DOMAIN pairs :
                          loggers[l].prev_node_name \in
                              {pairs[i].v[1].end_node, pairs[i].v[2].end_node}

\* linear-relu matched in both models with input logging disabled: the
\* probes are requested at the relu nodes only
C17_Witness ==
    /\ lastCall.op = "add_loggers"
    /\ \E i \in DOMAIN pairs :
          /\ pairs[i].v[1].end_node # pairs[i].v[1].start_node
          /\ DictHas(requests.outputs_a, pairs[i].v[1].end_node)
          /\ ~DictHas(requests.outputs_a, pairs[i].v[1].start_node)
    /\ Len(loggers) = 2 * Len(pairs)

\* C18: adding entries to the relatedness table never decreases the number
\* of match pairs: the scan with any table that holds a part of the entries
\* finds at most as many pairs as the scan with all of them.
C18_MatchingMonotonic ==
    Instrumentation =>
        \A smaller \in SUBSET match.table :
            Len(GetMatchingSubgraphPairs(match.graph_a, match.graph_b, smaller,
                                         match.unmatchable))
            <= Len(pairs)

\* a table with which two pairs are found, while one of its entries alone
\* finds a single pair
C18_Witness ==
    /\ Instrumentation
    /\ Len(pairs) = 2
    /\ Cardinality(match.table) >= 2
    /\ \E smaller \in SUBSET match.table :
          /\ smaller # {}
          /\ Len(GetMatchingSubgraphPairs(match.graph_a, match.graph_b, smaller,
                                          match.unmatchable)) = 1

(***************************************************************************)
(* Claims about the recompilation of the sweep model                       *)
(***************************************************************************)
\* the positions of the log at which the sweep model is recompiled
Recompiles == {k \in DOMAIN steps : steps[k] = Step("recompile")}

\* the positions of the log at which a probe or a branch is inserted
Insertions == {k \in DOMAIN steps : steps[k].ev \in {"setattr", "call_module"}}

\* C21: when prepare_n_shadows_model returns normally it has recompiled the
\* sweep model exactly once, as its last step, after every insertion of a
\* probe or a branch, whether or not subgraphs or candidates were skipped.
C21_RecompiledOnceAfterInsertions ==
    Prepared =>
        /\ Cardinality(Recompiles) = 1
        /\ Recompiles = {Len(steps)}
        /\ \A k \in Insertions : k < Len(steps)
        /\ mt.recompiles = 1

\* a normal return on which one subgraph was skipped as a whole, a candidate
\* of the other one was skipped, and a probe and a branch were inserted
C21_Witness ==
    /\ Prepared
    /\ \E s \in DOMAIN sweep.subgraphs : ~Instrumented(sweep.subgraphs[s])
    /\ \E s \in DOMAIN sweep.subgraphs :
          /\ Instrumented(sweep.subgraphs[s])
          /\ Cardinality(NonNullCandidates(s - 1)) = 1
    /\ Cardinality(Insertions) = 4
    /\ Recompiles # {}

(***************************************************************************)
(* Claims about comparing capture sequences of different lengths           *)
(***************************************************************************)
\* the records of model mn in group g of the results before the call
\* (Before) and after it (After)
Before(g, mn) == ListOf(GroupOf(results, g), mn)
After(g, mn) == ListOf(GroupOf(results', g), mn)

\* the call keeps the groups, the lists of records and the 'values' of
\* every record
ValuesKept ==
    /\ Groups(results') = Groups(results)
    /\ \A g \in Groups(results), mn \in CompareModelNames :
          /\ Len(After(g, mn)) = Len(Before(g, mn))
          /\ \A q \in DOMAIN Before(g, mn) :
                After(g, mn)[q].values = Before(g, mn)[q].values

\* the call keeps every record of model_name_1
ModelOneKept ==
    \A g \in Groups(results) : After(g, lastCall'.m1) = Before(g, lastCall'.m1)

\* every model-2 record carries the comparison of the leading elements it
\* shares with the model-1 record it is paired with, and nothing more
ComparedUpToShorter ==
    \A g \in Groups(results) :
        \A q \in DOMAIN Before(g, lastCall'.m2) :
            LET values_1 == Before(g, lastCall'.m1)[
                                MinOf(MatchesOf(Before(g, lastCall'.m1),
                                                Before(g, lastCall'.m2)[q]))].values
                values_2 == Before(g, lastCall'.m2)[q].values
                cmp == After(g, lastCall'.m2)[q][lastCall'.name]
            IN /\ Len(cmp) = MinOf({Len(values_1), Len(values_2)})
               /\ \A n \in DOMAIN cmp : cmp[n] = ComparisonFn(values_1[n], values_2[n])

\* a call that pairs every model-2 record with a model-1 record does not
\* raise, whatever the lengths of the capture sequences
NoErrorFromLengths ==
    (~SomeGroupLacksModel' /\ ~SomeRecordLacksCounterpart') => err' = "none"

\* some model-2 record is paired with a model-1 record that holds a capture
\* sequence of another length
SomePairDiffersInLength ==
    \E g \in Groups(results) :
        \E q \in DOMAIN Before(g, lastCall'.m2) :
            /\ MatchesOf(Before(g, lastCall'.m1), Before(g, lastCall'.m2)[q]) # {}
            /\ Len(Before(g, lastCall'.m1)[
                       MinOf(MatchesOf(Before(g, lastCall'.m1),
                                       Before(g, lastCall'.m2)[q]))].values)
               # Len(Before(g, lastCall'.m2)[q].values)

\* C22 as stated: a comparison that pairs records of different lengths
\* raises nothing on account of the lengths, compares the leading elements
\* up to the shorter length, keeps the 'values' lists and keeps every
\* model-1 record.
C22_OriginalStep ==
    (lastCall'.op = "compare" /\ SomePairDiffersInLength) =>
        /\ NoErrorFromLengths
        /\ err' = "none" => ComparedUpToShorter
        /\ ValuesKept
        /\ ModelOneKept

C22_Step ==
    lastCall'.op = "compare" =>
        /\ NoErrorFromLengths
        /\ err' = "none" => ComparedUpToShorter
        /\ ValuesKept
        /\ lastCall'.m1 # lastCall'.m2 => ModelOneKept

CaptureInputs == {T1, T2, RnnValue, PyNone}

\* the model of the l-th logger; the loggers share match name and results
\* type
CaptureModelNames == <<"a", "b", "c", "d">>

InitCapture ==
    /\ loggers = [l \in 1..NumProbes |->
                    NewLogger("m0", CaptureModelNames[l], "node_output", 0, 0)]
    /\ results = EmptyDict
    /\ ret = NoValue
    /\ err = "none"
    /\ lastCall = NoCall
    /\ numCalls = 0
    /\ numTensorCalls = [l \in 1..NumProbes |-> 0]
    /\ IdleEntry /\ IdleSweep /\ IdleMatch

\* a forward pass reaches logger l with value x, before the extraction
CaptureForward(l, x) ==
    /\ lastCall.op # "extract"
    /\ CallForward(l, x)

\* the extraction after the forward passes; the records hold the loggers'
\* own lists, so it is taken once the passes are over
CaptureExtract ==
    /\ lastCall.op # "extract"
    /\ ExtractLoggerInfoOneModel

NextCapture ==
    \/ \E l \in 1..NumProbes, x \in CaptureInputs : CaptureForward(l, x)
    \/ CaptureExtract

SpecCapture == InitCapture /\ [][NextCapture]_vars

(***************************************************************************)
(* Claims about the values of an extracted record                          *)
(***************************************************************************)
\* the record extracted for the l-th logger
RecordOfLogger(l) ==
    DictGet(DictGet(DictGet(results, loggers[l].ref_name), loggers[l].results_type),
            loggers[l].model_name)[1]

\* C23: the 'values' of an extracted record are the logger's stats_rnn when
\* that list is non-empty and its stats otherwise: a logger that captured
\* tensors and paired values reports the paired captures only, and a logger
\* that captured nothing reports the empty list.
C23_ValuesPreferPairedCaptures ==
    lastCall.op = "extract" =>
        /\ err = "none"
        /\ \A l \in DOMAIN loggers :
              /\ Len(loggers[l].stats_rnn) > 0 =>
                    /\ RecordOfLogger(l).values = loggers[l].stats_rnn
                    /\ \A n \in DOMAIN RecordOfLogger(l).values :
                          IsTuple(RecordOfLogger(l).values[n])
              /\ Len(loggers[l].stats_rnn) = 0 =>
                    /\ RecordOfLogger(l).values = loggers[l].stats
                    /\ Len(RecordOfLogger(l).values) = numTensorCalls[l]
              /\ (loggers[l].stats = <<>> /\ loggers[l].stats_rnn = <<>>) =>
                    RecordOfLogger(l).values = <<>>

\* one logger captured a tensor and then a paired value and reports the
\* paired value only, the other logger was called with a value it does not
\* capture and reports the empty list
C23_Witness ==
    /\ lastCall.op = "extract" /\ err = "none"
    /\ \E l \in DOMAIN loggers :
          /\ numTensorCalls[l] = 1
          /\ Len(loggers[l].stats) = 1
          /\ Len(loggers[l].stats_rnn) = 1
          /\ Len(RecordOfLogger(l).values) = 1
          /\ IsTuple(RecordOfLogger(l).values[1])
    /\ \E l \in DOMAIN loggers :
          /\ loggers[l].stats = <<>> /\ loggers[l].stats_rnn = <<>>
          /\ RecordOfLogger(l).values = <<>>
    /\ numCalls = 3

=============================================================================
